---- MODULE Spec2Model ----
(***************************************************************************)
(* Model of the LoRa telemetry decoder: the LSB-first BitReader, the       *)
(* two's-complement sign extension, the 42-byte packet decoder, the batch  *)
(* decoder (decode_file), the filter pipeline (apply_filters) with its     *)
(* channel stage and drop-list parser, the flags string, and the exit      *)
(* codes of main.                                                          *)
(***************************************************************************)
EXTENDS Integers, Sequences, FiniteSets, TLC

VARIABLES
    r_data,        \* BitReader._data: sequence of bytes
    r_bit_pos,     \* BitReader._bit_pos
    r_max_bits,    \* BitReader._max_bits
    r_calls,       \* observation: the last read_bits calls, oldest first
    s_value,       \* _sign_extend: argument value
    s_bits,        \* _sign_extend: argument bits
    s_result,      \* _sign_extend: value returned
    s_done,        \* _sign_extend has returned
    c_stage,       \* codec run: "empty", "packed" or "decoded"
    c_src,         \* which writer packed the record: "spec" or "generator"
    c_fields,      \* the field values handed to the writer
    c_wire,        \* the 42 bytes the writer produced
    c_out,         \* what _decode_packet returned for c_wire
    b_data,        \* decode_file: the bytes read from the file
    b_made,        \* observation: the records b_data was built from
    b_pc,          \* decode_file: "call", "loop", "done", or "raised"
    b_i,           \* decode_file: loop index i
    b_count,       \* decode_file: count
    b_packets,     \* decode_file: packets
    b_log,         \* observation: outcome of each record visited
    f_scenario,    \* which settings file and filter file the run was given
    f_packets,     \* apply_filters: argument packets
    f_pc,          \* filter run: "settings", "filters", "apply", "loop" or "done"
    f_config,      \* ConfigManager.config
    f_time_settings,      \* FilterManager.time_settings
    f_channel_limits,     \* FilterManager.channel_limits
    f_manual_drops,       \* FilterManager.manual_drops
    f_filtered_packets,   \* apply_filters: filtered_packets
    f_prev_time,   \* apply_filters: prev_time
    f_idx,         \* apply_filters: packets visited; idx of the next one
    f_trace,       \* observation: verdict and prev_time of each packet visited
    k_bounds,      \* _passes_channel_filter: the bounds held in channel_limits
    k_packet,      \* _passes_channel_filter: argument packet
    k_passed,      \* _passes_channel_filter: value returned
    k_done,        \* _passes_channel_filter has returned
    p_drop_list,   \* _parse_packet_list: argument drop_list, a sequence of characters
    p_drops,       \* _parse_packet_list: value returned
    p_done,        \* _parse_packet_list has returned
    h_cfg,         \* apply_filters: which config_manager the call was given
    h_calls,       \* observation: the finished apply_filters calls on this FilterManager
    m_env,         \* main: the files and collaborators the run meets
    m_pc,          \* main: "start", "validate", "decode", "filter", "csv", "plot" or "exit"
    m_packets,     \* main: len(packets), then len(filtered_packets)
    m_decode_calls,\* observation: calls of decode_file
    m_rc,          \* main: value returned, -1 before the return
    m_log,         \* main: the error logged, "" if none
    g_byte,        \* the flags byte of a record
    g_pc,          \* flags run: "byte", "flags" or "string"
    g_flags,       \* SystemFlags.from_byte(g_byte)
    g_string,      \* to_dict()['flags'], a sequence of characters
    d_data,        \* the bytes handed to the decoder
    d_pc,          \* "call", "decoded" or "logged"
    d_out,         \* what _decode_packet(d_data) did
    d_logged,      \* what decode_packet_with_log(d_data) did
    y_channel,     \* the packet field a bound is written for
    y_kind,        \* "min" or "max"
    y_source,      \* the file holding the bound: "filter" or "settings"
    y_pc,          \* "file", "loaded" or "filtered"
    y_limits,      \* FilterManager.channel_limits after the file is read and merged
    y_passed       \* _passes_channel_filter of a packet beyond the bound

varsReader == <<r_data, r_bit_pos, r_max_bits, r_calls>>
varsSign == <<s_value, s_bits, s_result, s_done>>
varsCodec == <<c_stage, c_src, c_fields, c_wire, c_out>>
varsBatch == <<b_data, b_made, b_pc, b_i, b_count, b_packets, b_log>>
varsFilter == <<f_scenario, f_packets, f_pc, f_config, f_time_settings, f_channel_limits,
                f_manual_drops, f_filtered_packets, f_prev_time, f_idx, f_trace>>
varsChannel == <<k_bounds, k_packet, k_passed, k_done>>
varsParse == <<p_drop_list, p_drops, p_done>>
varsPure == <<h_cfg, h_calls>>
varsMain == <<m_env, m_pc, m_packets, m_decode_calls, m_rc, m_log>>
varsFlags == <<g_byte, g_pc, g_flags, g_string>>
varsLength == <<d_data, d_pc, d_out, d_logged>>
varsKeys == <<y_channel, y_kind, y_source, y_pc, y_limits, y_passed>>

vars == <<r_data, r_bit_pos, r_max_bits, r_calls, s_value, s_bits, s_result, s_done,
          c_stage, c_src, c_fields, c_wire, c_out,
          b_data, b_made, b_pc, b_i, b_count, b_packets, b_log,
          f_scenario, f_packets, f_pc, f_config, f_time_settings, f_channel_limits,
          f_manual_drops, f_filtered_packets, f_prev_time, f_idx, f_trace,
          k_bounds, k_packet, k_passed, k_done,
          p_drop_list, p_drops, p_done,
          h_cfg, h_calls,
          m_env, m_pc, m_packets, m_decode_calls, m_rc, m_log,
          g_byte, g_pc, g_flags, g_string,
          d_data, d_pc, d_out, d_logged,
          y_channel, y_kind, y_source, y_pc, y_limits, y_passed>>

----------------------------------------------------------------------------
(* Bounds of the model *)

\* longest buffer handed to a BitReader in the reader specification
MaxBytes == 3
\* largest bit count asked of read_bits in the reader specification
MaxN == 10
\* most records in a buffer handed to decode_file
MaxRecords == 3
MaxPackets == 3
MaxText == 5
MaxCalls == 3
MaxLength == 44
\* half-width of the windows of values _sign_extend is tried on around 0,
\* the sign bit and all-bits-set
SignSpan == 8

\* byte values the buffers are built from (01001011 and 10110010)
TestBytes == {75, 178}

----------------------------------------------------------------------------
(* Integer bit operations of the source language, on non-negative ints *)

RECURSIVE Pow2(_)
Pow2(n) == IF n = 0 THEN 1 ELSE 2 * Pow2(n - 1)

\* x << k
Shl(x, k) == x * Pow2(k)

\* x >> k
Shr(x, k) == x \div Pow2(k)

RECURSIVE BitAnd(_, _)
BitAnd(a, b) ==
    IF a = 0 \/ b = 0 THEN 0
    ELSE (IF a % 2 = 1 /\ b % 2 = 1 THEN 1 ELSE 0) + 2 * BitAnd(a \div 2, b \div 2)

RECURSIVE BitOr(_, _)
BitOr(a, b) ==
    IF a = 0 THEN b
    ELSE IF b = 0 THEN a
    ELSE (IF a % 2 = 1 \/ b % 2 = 1 THEN 1 ELSE 0) + 2 * BitOr(a \div 2, b \div 2)

Min(a, b) == IF a < b THEN a ELSE b

----------------------------------------------------------------------------
(* BitReader *)

\* read_bits with the chunk taken from the low bits of the byte, whatever the
\* cursor's offset in it
RECURSIVE ReadLoopNoOffset(_, _, _, _, _)
ReadLoopNoOffset(data, bit_pos, result, shift, remain) ==
    IF remain = 0 THEN [err |-> FALSE, value |-> result, pos |-> bit_pos]
    ELSE
        LET take == Min(8 - (bit_pos % 8), remain)
            chunk == BitAnd(data[bit_pos \div 8 + 1], Shl(1, take) - 1)
        IN  ReadLoopNoOffset(data, bit_pos + take, BitOr(result, Shl(chunk, shift)),
                             shift + take, remain - take)

\* read_bits with the accumulator offset advanced by a whole byte per chunk
RECURSIVE ReadLoopByteShift(_, _, _, _, _)
ReadLoopByteShift(data, bit_pos, result, shift, remain) ==
    IF remain = 0 THEN [err |-> FALSE, value |-> result, pos |-> bit_pos]
    ELSE
        LET take == Min(8 - (bit_pos % 8), remain)
            chunk == BitAnd(Shr(data[bit_pos \div 8 + 1], bit_pos % 8), Shl(1, take) - 1)
        IN  ReadLoopByteShift(data, bit_pos + take, BitOr(result, Shl(chunk, shift)),
                              shift + 8, remain - take)

\* the while loop of read_bits; bytes are 1-indexed in the model
RECURSIVE ReadLoop(_, _, _, _, _)
ReadLoop(data, bit_pos, result, shift, remain) ==
    IF remain = 0 THEN [err |-> FALSE, value |-> result, pos |-> bit_pos]
    ELSE
        LET byte_idx == bit_pos \div 8
            bit_in_byte == bit_pos % 8
            available == 8 - bit_in_byte
            take == Min(available, remain)
            byte_val == data[byte_idx + 1]
            mask == Shl(1, take) - 1
            chunk == BitAnd(Shr(byte_val, bit_in_byte), mask)
        IN  ReadLoop(data, bit_pos + take, BitOr(result, Shl(chunk, shift)),
                     shift + take, remain - take)

\* the guards of read_bits that raise ValueError
ReadRaises(bit_pos, max_bits, n) ==
    n # 0 /\ (n < 0 \/ bit_pos + n > max_bits)

\* read_bits that checks the length only after taking the bits that are left
ReadBitsDrain(data, bit_pos, max_bits, n) ==
    IF n = 0 THEN [err |-> FALSE, value |-> 0, pos |-> bit_pos]
    ELSE IF ReadRaises(bit_pos, max_bits, n)
         THEN [err |-> TRUE, value |-> 0, pos |-> IF n < 0 THEN bit_pos ELSE max_bits]
    ELSE ReadLoop(data, bit_pos, 0, 0, n)

\* read_bits(n) on a reader at bit_pos: the value returned (or err) and the
\* cursor afterwards
ReadBits(data, bit_pos, max_bits, n) ==
    IF n = 0 THEN [err |-> FALSE, value |-> 0, pos |-> bit_pos]
    ELSE IF ReadRaises(bit_pos, max_bits, n)
         THEN [err |-> TRUE, value |-> 0, pos |-> bit_pos]
    ELSE ReadLoop(data, bit_pos, 0, 0, n)

\* bits_left()
BitsLeft(max_bits, bit_pos) == max_bits - bit_pos

----------------------------------------------------------------------------
(* _sign_extend *)

\* _sign_extend testing the bit above the field for the sign
SignExtendWideSign(value, bits) ==
    LET sign_bit == Shl(1, bits)
        mask == Shl(1, bits) - 1
        v == BitAnd(value, mask)
    IN  IF BitAnd(v, sign_bit) # 0 THEN v - Shl(1, bits) ELSE v

\* _sign_extend(value, bits)
SignExtend(value, bits) ==
    LET sign_bit == Shl(1, bits - 1)
        mask == Shl(1, bits) - 1
        v == BitAnd(value, mask)
    IN  IF BitAnd(v, sign_bit) # 0 THEN v - Shl(1, bits) ELSE v

----------------------------------------------------------------------------
(* Packets and the BitWriter of the test packet generator *)

PACKET_SIZE == 42

FlagNames == <<"err", "wait", "ok", "ping", "command", "land", "eject", "start">>

\* SystemFlags.from_byte: flag k is bit k of b
FromByte(b) ==
    [err     |-> BitAnd(b, 1) # 0,
     wait    |-> BitAnd(b, 2) # 0,
     ok      |-> BitAnd(b, 4) # 0,
     ping    |-> BitAnd(b, 8) # 0,
     command |-> BitAnd(b, 16) # 0,
     land    |-> BitAnd(b, 32) # 0,
     eject   |-> BitAnd(b, 64) # 0,
     start   |-> BitAnd(b, 128) # 0]

\* SystemFlags.to_string: one character per flag, in the order of the list
to_string(flags) ==
    [j \in 1..8 |-> IF flags[FlagNames[j]] THEN "1" ELSE "0"]

\* _to_twos_complement: value & mask on an unbounded two's-complement integer
ToTwosComplement(value, nbits) == value % Pow2(nbits)

\* the while loop of BitWriter.write_bits
RECURSIVE WriteLoop(_, _, _, _)
WriteLoop(buf, bit_pos, v, remaining) ==
    IF remaining = 0 THEN [err |-> FALSE, buf |-> buf, pos |-> bit_pos]
    ELSE
        LET byte_idx == bit_pos \div 8
            bit_in_byte == bit_pos % 8
            free == 8 - bit_in_byte
            to_write == Min(free, remaining)
            mask == Shl(1, to_write) - 1
            chunk == BitAnd(v, mask)
            placed == BitOr(buf[byte_idx + 1], BitAnd(Shl(chunk, bit_in_byte), 255))
        IN  WriteLoop([buf EXCEPT ![byte_idx + 1] = placed], bit_pos + to_write,
                      Shr(v, to_write), remaining - to_write)

\* BitWriter.write_bits(value, nbits) on a writer [buf, pos]
WriteBits(bw, value, nbits) ==
    IF bw.err \/ nbits = 0 THEN bw
    ELSE IF nbits < 0 \/ bw.pos + nbits > Len(bw.buf) * 8
         THEN [bw EXCEPT !.err = TRUE]
    ELSE WriteLoop(bw.buf, bw.pos, ToTwosComplement(value, nbits), nbits)

\* BitWriter(size_bytes)
NewBitWriter(size_bytes) ==
    [err |-> FALSE, buf |-> [i \in 1..size_bytes |-> 0], pos |-> 0]

\* the fields in the order and widths generate_test_packet writes them
GenLayout ==
    << <<"time_ms", 24>>, <<"temp_cC", 14>>, <<"pressPa", 20>>,
       <<"magX", 16>>, <<"magY", 16>>, <<"magZ", 16>>,
       <<"accelX", 16>>, <<"accelY", 16>>, <<"accelZ", 16>>,
       <<"gyroX", 16>>, <<"gyroY", 16>>, <<"gyroZ", 16>>,
       <<"lat_1e7", 30>>, <<"lon_1e7", 30>>, <<"flags", 8>>,
       <<"radData0", 16>>, <<"radData1", 16>>, <<"radData2", 16>>,
       <<"radData3", 16>>, <<"dummy", 2>> >>

\* the fields in the order and widths _decode_packet reads them
DecodeLayout ==
    << <<"time_ms", 24>>, <<"temp_cC", 14>>, <<"pressPa", 20>>,
       <<"lat_1e7", 30>>, <<"lon_1e7", 30>>, <<"dummy", 2>>,
       <<"magX", 16>>, <<"magY", 16>>, <<"magZ", 16>>,
       <<"accelX", 16>>, <<"accelY", 16>>, <<"accelZ", 16>>,
       <<"gyroX", 16>>, <<"gyroY", 16>>, <<"gyroZ", 16>>,
       <<"flags", 8>>,
       <<"radData0", 16>>, <<"radData1", 16>>, <<"radData2", 16>>,
       <<"radData3", 16>> >>

FieldNames == {DecodeLayout[i][1] : i \in 1..Len(DecodeLayout)}

SignedFields == {"temp_cC", "lat_1e7", "lon_1e7", "magX", "magY", "magZ",
                 "accelX", "accelY", "accelZ", "gyroX", "gyroY", "gyroZ"}

WidthOf(name) ==
    LET i == CHOOSE j \in 1..Len(DecodeLayout) : DecodeLayout[j][1] = name
    IN  DecodeLayout[i][2]

\* the write_bits calls of a packer, field after field
RECURSIVE PackFrom(_, _, _, _)
PackFrom(layout, i, fields, bw) ==
    IF i > Len(layout) THEN bw
    ELSE PackFrom(layout, i + 1, fields,
                  WriteBits(bw, fields[layout[i][1]], layout[i][2]))

\* the 42 bytes a packer with this layout returns
Pack(layout, fields) == PackFrom(layout, 1, fields, NewBitWriter(PACKET_SIZE)).buf

ZeroFields == [f \in FieldNames |-> 0]

ZeroPacket ==
    [time_ms |-> 0, temp_cC |-> 0, pressPa |-> 0,
     magX |-> 0, magY |-> 0, magZ |-> 0,
     accelX |-> 0, accelY |-> 0, accelZ |-> 0,
     gyroX |-> 0, gyroY |-> 0, gyroZ |-> 0,
     lat_1e7 |-> 0, lon_1e7 |-> 0, flags |-> FromByte(0),
     radData0 |-> 0, radData1 |-> 0, radData2 |-> 0, radData3 |-> 0]

NoOut == [err |-> FALSE, pkt |-> ZeroPacket, pos |-> 0, dummy |-> 0]

----------------------------------------------------------------------------
(* TelemetryDecoder._decode_packet and _is_valid_packet *)

\* the read_bits calls of a decoder, field after field: the raw values read,
\* the cursor and whether a read raised
RECURSIVE ReadFields(_, _, _, _)
ReadFields(layout, i, data, acc) ==
    IF i > Len(layout) \/ acc.err THEN acc
    ELSE LET rd == ReadBits(data, acc.pos, Len(data) * 8, layout[i][2])
         IN  ReadFields(layout, i + 1, data,
                 [err |-> rd.err, pos |-> rd.pos,
                  raw |-> [acc.raw EXCEPT ![layout[i][1]] = rd.value]])

\* the packet built with the two spare bits taken as bits 20 and 21 of the
\* pressure
BuildPacketDummyInPressure(raw) ==
    [time_ms |-> raw["time_ms"],
     temp_cC |-> SignExtend(raw["temp_cC"], 14),
     pressPa |-> raw["pressPa"] + Shl(raw["dummy"], 20),
     magX |-> SignExtend(raw["magX"], 16),
     magY |-> SignExtend(raw["magY"], 16),
     magZ |-> SignExtend(raw["magZ"], 16),
     accelX |-> SignExtend(raw["accelX"], 16),
     accelY |-> SignExtend(raw["accelY"], 16),
     accelZ |-> SignExtend(raw["accelZ"], 16),
     gyroX |-> SignExtend(raw["gyroX"], 16),
     gyroY |-> SignExtend(raw["gyroY"], 16),
     gyroZ |-> SignExtend(raw["gyroZ"], 16),
     lat_1e7 |-> SignExtend(raw["lat_1e7"], 30),
     lon_1e7 |-> SignExtend(raw["lon_1e7"], 30),
     flags |-> FromByte(raw["flags"]),
     radData0 |-> raw["radData0"],
     radData1 |-> raw["radData1"],
     radData2 |-> raw["radData2"],
     radData3 |-> raw["radData3"]]

\* the packet built with lat_1e7 and lon_1e7 taken as unsigned 30-bit values
BuildPacketUnsignedPosition(raw) ==
    [time_ms |-> raw["time_ms"],
     temp_cC |-> SignExtend(raw["temp_cC"], 14),
     pressPa |-> raw["pressPa"],
     magX |-> SignExtend(raw["magX"], 16),
     magY |-> SignExtend(raw["magY"], 16),
     magZ |-> SignExtend(raw["magZ"], 16),
     accelX |-> SignExtend(raw["accelX"], 16),
     accelY |-> SignExtend(raw["accelY"], 16),
     accelZ |-> SignExtend(raw["accelZ"], 16),
     gyroX |-> SignExtend(raw["gyroX"], 16),
     gyroY |-> SignExtend(raw["gyroY"], 16),
     gyroZ |-> SignExtend(raw["gyroZ"], 16),
     lat_1e7 |-> raw["lat_1e7"],
     lon_1e7 |-> raw["lon_1e7"],
     flags |-> FromByte(raw["flags"]),
     radData0 |-> raw["radData0"],
     radData1 |-> raw["radData1"],
     radData2 |-> raw["radData2"],
     radData3 |-> raw["radData3"]]

\* the TelemetryPacket _decode_packet builds from the raw values
BuildPacket(raw) ==
    [time_ms |-> raw["time_ms"],
     temp_cC |-> SignExtend(raw["temp_cC"], 14),
     pressPa |-> raw["pressPa"],
     magX |-> SignExtend(raw["magX"], 16),
     magY |-> SignExtend(raw["magY"], 16),
     magZ |-> SignExtend(raw["magZ"], 16),
     accelX |-> SignExtend(raw["accelX"], 16),
     accelY |-> SignExtend(raw["accelY"], 16),
     accelZ |-> SignExtend(raw["accelZ"], 16),
     gyroX |-> SignExtend(raw["gyroX"], 16),
     gyroY |-> SignExtend(raw["gyroY"], 16),
     gyroZ |-> SignExtend(raw["gyroZ"], 16),
     lat_1e7 |-> SignExtend(raw["lat_1e7"], 30),
     lon_1e7 |-> SignExtend(raw["lon_1e7"], 30),
     flags |-> FromByte(raw["flags"]),
     radData0 |-> raw["radData0"],
     radData1 |-> raw["radData1"],
     radData2 |-> raw["radData2"],
     radData3 |-> raw["radData3"]]

\* _decode_packet with a given read order
DecodeWith(layout, data) ==
    IF Len(data) # PACKET_SIZE THEN [NoOut EXCEPT !.err = TRUE]
    ELSE LET rd == ReadFields(layout, 1, data,
                              [err |-> FALSE, pos |-> 0, raw |-> ZeroFields])
         IN  IF rd.err THEN [NoOut EXCEPT !.err = TRUE, !.pos = rd.pos]
             ELSE [err |-> FALSE, pkt |-> BuildPacket(rd.raw), pos |-> rd.pos,
                   dummy |-> rd.raw["dummy"]]

\* _decode_packet reading the fields in the order of the module docstring
\* (mag, accel, gyro before lat, lon; the two spare bits last)
DecodePacketDocOrder(data) == DecodeWith(GenLayout, data)

\* _decode_packet without the length test
DecodePacketAnyLength(data) ==
    LET rd == ReadFields(DecodeLayout, 1, data,
                         [err |-> FALSE, pos |-> 0, raw |-> ZeroFields])
    IN  IF rd.err THEN [NoOut EXCEPT !.err = TRUE, !.pos = rd.pos]
        ELSE [err |-> FALSE, pkt |-> BuildPacket(rd.raw), pos |-> rd.pos,
              dummy |-> rd.raw["dummy"]]

\* _decode_packet(data)
DecodePacket(data) == DecodeWith(DecodeLayout, data)

Abs(x) == IF x < 0 THEN -x ELSE x

\* _is_valid_packet with the latitude and longitude bounds in units of 1e-6
\* degrees
IsValidPacketMicro(pkt) ==
    /\ ~(pkt.pressPa < 0 \/ pkt.pressPa >= Shl(1, 20))
    /\ ~(Abs(pkt.lat_1e7) > 90 * 1000000)
    /\ ~(Abs(pkt.lon_1e7) > 180 * 1000000)
    /\ ~(Abs(pkt.temp_cC) > 100000)

\* _is_valid_packet(pkt); the isinstance tests hold of every decoded packet
IsValidPacket(pkt) ==
    /\ ~(pkt.pressPa < 0 \/ pkt.pressPa >= Shl(1, 20))
    /\ ~(Abs(pkt.lat_1e7) > 90 * 10000000)
    /\ ~(Abs(pkt.lon_1e7) > 180 * 10000000)
    /\ ~(Abs(pkt.temp_cC) > 100000)

\* decode_packet_with_log(data): the packet, or None when _decode_packet
\* raises or the packet is not valid; no exception leaves the try
DecodePacketWithLog(data) ==
    LET out == DecodePacket(data)
    IN  IF out.err THEN [raised |-> FALSE, value |-> <<>>]
        ELSE IF IsValidPacket(out.pkt) THEN [raised |-> FALSE, value |-> <<out.pkt>>]
        ELSE [raised |-> FALSE, value |-> <<>>]

----------------------------------------------------------------------------
(* ConfigManager and FilterManager: settings, rules and the three stages *)

\* a dict with no key
EmptyDict == <<>>

\* d.update(e)
Update(d, e) ==
    [k \in DOMAIN d \cup DOMAIN e |-> IF k \in DOMAIN e THEN e[k] ELSE d[k]]

\* configparser stores option names in lower case
Lower(name) ==
    CASE name = "temp_cC" -> "temp_cc"
      [] name = "pressPa" -> "presspa"
      [] name = "magX" -> "magx"
      [] name = "magY" -> "magy"
      [] name = "magZ" -> "magz"
      [] name = "accelX" -> "accelx"
      [] name = "accelY" -> "accely"
      [] name = "accelZ" -> "accelz"
      [] name = "gyroX" -> "gyrox"
      [] name = "gyroY" -> "gyroy"
      [] name = "gyroZ" -> "gyroz"
      [] name = "radData0" -> "raddata0"
      [] name = "radData1" -> "raddata1"
      [] name = "radData2" -> "raddata2"
      [] name = "radData3" -> "raddata3"
      [] OTHER -> name

\* the bounds <<channel, "min" or "max", value>> of an INI section, as a dict
\* of dicts keyed by the stored channel name
LimitsDict(bounds) ==
    [c \in {Lower(t[1]) : t \in bounds} |->
        [k \in {t[2] : t \in {u \in bounds : Lower(u[1]) = c}} |->
            (CHOOSE t \in bounds : Lower(t[1]) = c /\ t[2] = k)[3]]]

\* ConfigManager.load_settings: the options of the section, names in lower case
LoadSettings(file) == [opts |-> file.opts, limits |-> LimitsDict(file.limits)]

\* ConfigManager.get_time_settings
GetTimeSettings(config) ==
    LET jump == IF "time_gap_ms" \in DOMAIN config.opts
                THEN [max_jump_ms |-> config.opts["time_gap_ms"]]
                ELSE IF "max_jump_ms" \in DOMAIN config.opts
                THEN [max_jump_ms |-> config.opts["max_jump_ms"]]
                ELSE EmptyDict
        wrap == IF "allow_wrap" \in DOMAIN config.opts
                THEN [allow_wrap |-> config.opts["allow_wrap"]]
                ELSE EmptyDict
    IN  Update(jump, wrap)

\* the channels get_channel_limits looks up
Channels ==
    {"temp_cC", "pressPa", "magX", "magY", "magZ", "accelX", "accelY", "accelZ",
     "gyroX", "gyroY", "gyroZ", "lat_1e7", "lon_1e7",
     "radData0", "radData1", "radData2", "radData3"}

\* ConfigManager.get_channel_limits: channel_min and channel_max, looked up
\* under the channel's own spelling
GetChannelLimits(config) ==
    [c \in Channels \cap DOMAIN config.limits |-> config.limits[c]]

\* one item of a drop list: an index, a range a-b, or text that is neither
ParseToken(tok) ==
    IF tok.kind = "index" THEN {tok.a}
    ELSE IF tok.kind = "range" THEN tok.a..tok.b
    ELSE {}

\* a str is a sequence of one-character strings
Digits == {"0", "1", "2", "3", "4", "5", "6", "7", "8", "9"}

DigitValue(c) ==
    CASE c = "0" -> 0 [] c = "1" -> 1 [] c = "2" -> 2 [] c = "3" -> 3
      [] c = "4" -> 4 [] c = "5" -> 5 [] c = "6" -> 6 [] c = "7" -> 7
      [] c = "8" -> 8 [] c = "9" -> 9

\* str.strip() for blanks
RECURSIVE LStrip(_)
LStrip(s) == IF s # <<>> /\ Head(s) = " " THEN LStrip(Tail(s)) ELSE s

RECURSIVE RStrip(_)
RStrip(s) ==
    IF s # <<>> /\ s[Len(s)] = " " THEN RStrip(SubSeq(s, 1, Len(s) - 1)) ELSE s

Strip(s) == RStrip(LStrip(s))

\* position of the first sep in s, 0 if there is none
FirstIndex(s, sep) ==
    IF \E i \in DOMAIN s : s[i] = sep
    THEN CHOOSE i \in DOMAIN s : s[i] = sep /\ \A j \in 1..(i - 1) : s[j] # sep
    ELSE 0

\* str.split(sep)
RECURSIVE Split(_, _)
Split(s, sep) ==
    LET i == FirstIndex(s, sep)
    IN  IF i = 0 THEN <<s>>
        ELSE <<SubSeq(s, 1, i - 1)>> \o Split(SubSeq(s, i + 1, Len(s)), sep)

\* value of a run of decimal digits
RECURSIVE DecimalValue(_, _)
DecimalValue(s, acc) ==
    IF s = <<>> THEN acc ELSE DecimalValue(Tail(s), 10 * acc + DigitValue(Head(s)))

\* int(s): blanks around, an optional sign, then digits only; anything else
\* is a ValueError
ParseInt(s) ==
    LET t == Strip(s)
        neg == t # <<>> /\ Head(t) = "-"
        body == IF t # <<>> /\ Head(t) \in {"-", "+"} THEN Tail(t) ELSE t
    IN  IF body # <<>> /\ \A i \in DOMAIN body : body[i] \in Digits
        THEN [err |-> FALSE,
              value |-> IF neg THEN 0 - DecimalValue(body, 0) ELSE DecimalValue(body, 0)]
        ELSE [err |-> TRUE, value |-> 0]

\* what _parse_packet_list makes of one item of drop_list.split(',')
ItemToken(text) ==
    LET item == Strip(text)
        cut == FirstIndex(item, "-")
        start == ParseInt(SubSeq(item, 1, cut - 1))
        end == ParseInt(SubSeq(item, cut + 1, Len(item)))
        single == ParseInt(item)
    IN  IF item = <<>> THEN [kind |-> "empty", a |-> 0, b |-> 0]
        ELSE IF cut # 0
        THEN IF start.err \/ end.err THEN [kind |-> "invalid", a |-> 0, b |-> 0]
             ELSE [kind |-> "range", a |-> start.value, b |-> end.value]
        ELSE IF single.err THEN [kind |-> "invalid", a |-> 0, b |-> 0]
             ELSE [kind |-> "index", a |-> single.value, b |-> single.value]

\* the items of a drop list, in order
Items(drop_list) ==
    LET parts == Split(drop_list, ",")
    IN  [i \in DOMAIN parts |-> ItemToken(parts[i])]

\* _parse_packet_list that gives up at the first item it cannot read
ParsePacketListStopAtInvalid(tokens) ==
    LET bad == {i \in 1..Len(tokens) : tokens[i].kind = "invalid"}
        upto == IF bad = {} THEN Len(tokens)
                ELSE (CHOOSE i \in bad : \A j \in bad : i <= j) - 1
    IN  UNION {ParseToken(tokens[i]) : i \in 1..upto}

\* FilterManager._parse_packet_list
ParsePacketList(tokens) == UNION {ParseToken(tokens[i]) : i \in 1..Len(tokens)}

\* the merge of _merge_config_settings into channel_limits
MergeLimits(limits, channel_config) ==
    [c \in DOMAIN limits \cup DOMAIN channel_config |->
        IF c \in DOMAIN channel_config
        THEN Update(IF c \in DOMAIN limits THEN limits[c] ELSE EmptyDict,
                    channel_config[c])
        ELSE limits[c]]

\* prev_time is None, or holds a time
None == <<>>
Some(t) == <<t>>

\* the time difference _passes_time_filter tests, after the wrap-around rule
TimeDiff(settings, t, prev) ==
    LET time_diff == t - prev
        allow_wrap == IF "allow_wrap" \in DOMAIN settings
                      THEN settings["allow_wrap"] ELSE FALSE
    IN  IF time_diff < 0 /\ allow_wrap THEN time_diff + Shl(1, 24) ELSE time_diff

\* _passes_time_filter that never adds 2^24 to a negative difference
PassesTimeFilterNoWrap(settings, packet, prev_time) ==
    IF DOMAIN settings = {} \/ prev_time = None THEN TRUE
    ELSE LET time_diff == packet.time_ms - prev_time[1]
             allow_wrap == IF "allow_wrap" \in DOMAIN settings
                           THEN settings["allow_wrap"] ELSE FALSE
         IN  IF "max_jump_ms" \in DOMAIN settings /\ time_diff > settings["max_jump_ms"]
             THEN FALSE
             ELSE IF time_diff < 0 /\ ~allow_wrap THEN FALSE
             ELSE TRUE

\* FilterManager._passes_time_filter; without max_jump_ms the bound is infinite
PassesTimeFilter(settings, packet, prev_time) ==
    IF DOMAIN settings = {} \/ prev_time = None THEN TRUE
    ELSE LET time_diff == TimeDiff(settings, packet.time_ms, prev_time[1])
             allow_wrap == IF "allow_wrap" \in DOMAIN settings
                           THEN settings["allow_wrap"] ELSE FALSE
         IN  IF "max_jump_ms" \in DOMAIN settings /\ time_diff > settings["max_jump_ms"]
             THEN FALSE
             ELSE IF time_diff < 0 /\ ~allow_wrap THEN FALSE
             ELSE TRUE

\* the keys of TelemetryPacket.to_dict()
PacketKeys == DOMAIN ZeroPacket

\* _passes_channel_filter that also drops a value equal to a bound
PassesChannelFilterOpen(limits, packet) ==
    \A channel \in DOMAIN limits :
        \/ channel \notin PacketKeys
        \/ channel = "flags"
        \/ /\ ("min" \in DOMAIN limits[channel]
                  => ~(packet[channel] <= limits[channel]["min"]))
           /\ ("max" \in DOMAIN limits[channel]
                  => ~(packet[channel] >= limits[channel]["max"]))

\* FilterManager._passes_channel_filter
PassesChannelFilter(limits, packet) ==
    \A channel \in DOMAIN limits :
        \/ channel \notin PacketKeys
        \/ channel = "flags"
        \/ /\ ("min" \in DOMAIN limits[channel]
                  => ~(packet[channel] < limits[channel]["min"]))
           /\ ("max" \in DOMAIN limits[channel]
                  => ~(packet[channel] > limits[channel]["max"]))

----------------------------------------------------------------------------
(* State machines: every specification starts the others' variables idle *)

IdleReader ==
    /\ r_data = <<>>
    /\ r_bit_pos = 0
    /\ r_max_bits = 0
    /\ r_calls = <<>>

IdleSign ==
    /\ s_value = 0
    /\ s_bits = 0
    /\ s_result = 0
    /\ s_done = FALSE

IdleCodec ==
    /\ c_stage = "empty"
    /\ c_src = "none"
    /\ c_fields = ZeroFields
    /\ c_wire = <<>>
    /\ c_out = NoOut

IdleBatch ==
    /\ b_data = <<>>
    /\ b_made = <<>>
    /\ b_pc = "call"
    /\ b_i = 0
    /\ b_count = 0
    /\ b_packets = <<>>
    /\ b_log = <<>>

IdleFilter ==
    /\ f_scenario = 1
    /\ f_packets = <<>>
    /\ f_pc = "settings"
    /\ f_config = [opts |-> EmptyDict, limits |-> EmptyDict]
    /\ f_time_settings = EmptyDict
    /\ f_channel_limits = EmptyDict
    /\ f_manual_drops = {}
    /\ f_filtered_packets = <<>>
    /\ f_prev_time = None
    /\ f_idx = 0
    /\ f_trace = <<>>

IdleChannel ==
    /\ k_bounds = {}
    /\ k_packet = ZeroPacket
    /\ k_passed = FALSE
    /\ k_done = FALSE

IdleParse ==
    /\ p_drop_list = <<>>
    /\ p_drops = {}
    /\ p_done = FALSE

IdlePure ==
    /\ h_cfg = 1
    /\ h_calls = <<>>

\* a run whose every step succeeds
QuietRun ==
    [settings |-> "none", input |-> "present", size |-> 42, read |-> "same",
     filter_file |-> "none", survive |-> "all",
     to_csv |-> TRUE, csv_ok |-> TRUE, graphs |-> FALSE, plot_ok |-> TRUE]

IdleMain ==
    /\ m_env = QuietRun
    /\ m_pc = "start"
    /\ m_packets = 0
    /\ m_decode_calls = 0
    /\ m_rc = -1
    /\ m_log = ""

IdleFlags ==
    /\ g_byte = 0
    /\ g_pc = "byte"
    /\ g_flags = FromByte(0)
    /\ g_string = <<>>

IdleLength ==
    /\ d_data = <<>>
    /\ d_pc = "call"
    /\ d_out = NoOut
    /\ d_logged = [raised |-> FALSE, value |-> None]

IdleKeys ==
    /\ y_channel = "lat_1e7"
    /\ y_kind = "min"
    /\ y_source = "filter"
    /\ y_pc = "file"
    /\ y_limits = EmptyDict
    /\ y_passed = FALSE

----------------------------------------------------------------------------
(* BitReader on its own *)

Buffers == UNION {[1..k -> TestBytes] : k \in 0..MaxBytes}

\* r_calls keeps the last two calls
Remember(calls, c) ==
    LET all == Append(calls, c)
    IN  IF Len(all) > 2 THEN Tail(all) ELSE all

\* BitReader(data)
InitReader ==
    /\ r_data \in Buffers
    /\ r_bit_pos = 0
    /\ r_max_bits = Len(r_data) * 8
    /\ r_calls = <<>>
    /\ IdleSign
    /\ IdleCodec
    /\ IdleBatch
    /\ IdleFilter
    /\ IdleChannel
    /\ IdleParse
    /\ IdlePure
    /\ IdleMain
    /\ IdleFlags
    /\ IdleLength
    /\ IdleKeys

\* r.read_bits(n)
read_bits(n) ==
    LET out == ReadBits(r_data, r_bit_pos, r_max_bits, n)
    IN  /\ r_bit_pos' = out.pos
        /\ r_calls' = Remember(r_calls,
                [n |-> n, before |-> r_bit_pos, err |-> out.err, value |-> out.value,
                 left |-> BitsLeft(r_max_bits, out.pos)])
        /\ UNCHANGED <<r_data, r_max_bits>>
        /\ UNCHANGED <<varsSign, varsCodec, varsBatch, varsFilter, varsChannel, varsParse, varsPure, varsMain, varsFlags, varsLength, varsKeys>>

NextReader == \E n \in (-1)..MaxN : read_bits(n)

SpecReader == InitReader /\ [][NextReader]_vars

----------------------------------------------------------------------------
(* _sign_extend on its own *)

\* the widths _decode_packet sign-extends
SignedWidths == {14, 16, 30}

\* every 14-bit value; for the wider fields the values around 0, around the
\* sign bit and up to all-bits-set
SignInputs(bits) ==
    IF bits = 14 THEN 0..(Pow2(bits) - 1)
    ELSE (0..SignSpan)
         \cup ((Pow2(bits - 1) - SignSpan)..(Pow2(bits - 1) + SignSpan))
         \cup ((Pow2(bits) - 1 - SignSpan)..(Pow2(bits) - 1))

InitSign ==
    /\ s_bits \in SignedWidths
    /\ s_value \in SignInputs(s_bits)
    /\ s_result = 0
    /\ s_done = FALSE
    /\ IdleReader
    /\ IdleCodec
    /\ IdleBatch
    /\ IdleFilter
    /\ IdleChannel
    /\ IdleParse
    /\ IdlePure
    /\ IdleMain
    /\ IdleFlags
    /\ IdleLength
    /\ IdleKeys

\* s_result = _sign_extend(s_value, s_bits)
sign_extend ==
    /\ ~s_done
    /\ s_result' = SignExtend(s_value, s_bits)
    /\ s_done' = TRUE
    /\ UNCHANGED <<s_value, s_bits>>
    /\ UNCHANGED <<varsReader, varsCodec, varsBatch, varsFilter, varsChannel, varsParse, varsPure, varsMain, varsFlags, varsLength, varsKeys>>

NextSign == sign_extend

SpecSign == InitSign /\ [][NextSign]_vars

----------------------------------------------------------------------------
(* One record through a packer and _decode_packet *)

\* the layout the round trip is stated against: LSB-first, in this order
ClaimLayout ==
    << <<"time_ms", 24>>, <<"temp_cC", 14>>, <<"pressPa", 20>>,
       <<"lat_1e7", 30>>, <<"lon_1e7", 30>>, <<"dummy", 2>>,
       <<"magX", 16>>, <<"magY", 16>>, <<"magZ", 16>>,
       <<"accelX", 16>>, <<"accelY", 16>>, <<"accelZ", 16>>,
       <<"gyroX", 16>>, <<"gyroY", 16>>, <<"gyroZ", 16>>,
       <<"flags", 8>>,
       <<"radData0", 16>>, <<"radData1", 16>>, <<"radData2", 16>>,
       <<"radData3", 16>> >>

\* bit patterns of a width: all zero, largest positive, sign bit alone, all
\* bits set, and a pattern without symmetry
Kinds == {"zero", "maxpos", "maxneg", "ones", "mixed"}

PatternOf(kind, w) ==
    CASE kind = "zero" -> 0
      [] kind = "maxpos" -> Pow2(w - 1) - 1
      [] kind = "maxneg" -> Pow2(w - 1)
      [] kind = "ones" -> Pow2(w) - 1
      [] OTHER -> 748252981 % Pow2(w)

\* the in-range value of a field that has this bit pattern
FieldValue(name, kind) ==
    LET w == WidthOf(name)
        p == PatternOf(kind, w)
    IN  IF name \in SignedFields /\ p >= Pow2(w - 1) THEN p - Pow2(w) ELSE p

\* every field of kind base, but field f of kind k
BoundaryFields(base, f, k) ==
    [n \in FieldNames |-> FieldValue(n, IF n = f THEN k ELSE base)]

\* ends and middle of the ranges generate_test_packet draws from
GenKinds == {"lo", "hi", "mid"}

GenRange(name) ==
    CASE name = "time_ms" -> <<1000, 16777215>>
      [] name = "temp_cC" -> <<-2000, 4000>>
      [] name = "pressPa" -> <<50000, 105000>>
      [] name \in {"magX", "magY", "magZ"} -> <<-500, 500>>
      [] name \in {"accelX", "accelY", "accelZ"} -> <<-1000, 1000>>
      [] name \in {"gyroX", "gyroY", "gyroZ"} -> <<-1800, 1800>>
      [] name = "lat_1e7" -> <<400000000, 700000000>>
      [] name = "lon_1e7" -> <<-100000000, 300000000>>
      [] name = "flags" -> <<0, 132>>
      [] name = "dummy" -> <<0, 0>>
      [] OTHER -> <<1000, 2000>>

GenValue(name, kind) ==
    LET r == GenRange(name)
    IN  IF kind = "lo" THEN r[1]
        ELSE IF kind = "hi" THEN r[2]
        ELSE IF name = "flags" THEN 32
        ELSE (r[1] + r[2]) \div 2

GenFields(base, f, k) ==
    [n \in FieldNames |-> GenValue(n, IF n = f THEN k ELSE base)]

InitCodec ==
    /\ c_stage = "empty"
    /\ c_src = "none"
    /\ c_fields = ZeroFields
    /\ c_wire = <<>>
    /\ c_out = NoOut
    /\ IdleReader
    /\ IdleSign
    /\ IdleBatch
    /\ IdleFilter
    /\ IdleChannel
    /\ IdleParse
    /\ IdlePure
    /\ IdleMain
    /\ IdleFlags
    /\ IdleLength
    /\ IdleKeys

\* in-range field values packed LSB-first in the stated layout
PackClaimLayout ==
    /\ c_stage = "empty"
    /\ \E base \in Kinds, f \in FieldNames, k \in Kinds :
          /\ c_fields' = BoundaryFields(base, f, k)
          /\ c_wire' = Pack(ClaimLayout, c_fields')
    /\ c_src' = "spec"
    /\ c_stage' = "packed"
    /\ UNCHANGED c_out
    /\ UNCHANGED <<varsReader, varsSign, varsBatch, varsFilter, varsChannel, varsParse, varsPure, varsMain, varsFlags, varsLength, varsKeys>>

\* generate_test_packet(time_ms, packet_id)
generate_test_packet ==
    /\ c_stage = "empty"
    /\ \E base \in GenKinds, f \in FieldNames, k \in GenKinds :
          /\ c_fields' = GenFields(base, f, k)
          /\ c_wire' = Pack(GenLayout, c_fields')
    /\ c_src' = "generator"
    /\ c_stage' = "packed"
    /\ UNCHANGED c_out
    /\ UNCHANGED <<varsReader, varsSign, varsBatch, varsFilter, varsChannel, varsParse, varsPure, varsMain, varsFlags, varsLength, varsKeys>>

\* pkt = self._decode_packet(block)
decode_packet ==
    /\ c_stage = "packed"
    /\ c_out' = DecodePacket(c_wire)
    /\ c_stage' = "decoded"
    /\ UNCHANGED <<c_src, c_fields, c_wire>>
    /\ UNCHANGED <<varsReader, varsSign, varsBatch, varsFilter, varsChannel, varsParse, varsPure, varsMain, varsFlags, varsLength, varsKeys>>

NextCodec ==
    \/ PackClaimLayout
    \/ generate_test_packet
    \/ decode_packet

SpecCodec == InitCodec /\ [][NextCodec]_vars

----------------------------------------------------------------------------
(* TelemetryDecoder.decode_file over a buffer of records *)

\* a plausible record with the given time
PlainFields(t) ==
    [ZeroFields EXCEPT !["time_ms"] = t, !["temp_cC"] = -1250, !["pressPa"] = 90000,
                       !["lat_1e7"] = 450000000, !["lon_1e7"] = -90000000,
                       !["magX"] = -5, !["accelZ"] = 981, !["flags"] = 132,
                       !["radData0"] = 1500, !["radData3"] = 65535]

\* the records the buffers are built from: two plausible ones, four packed
\* from a value beyond a plausibility bound of _is_valid_packet, and one with
\* the largest magnitudes the field widths can hold
PoolFields ==
    [a |-> PlainFields(1000),
     b |-> PlainFields(1500),
     press |-> [PlainFields(2000) EXCEPT !["pressPa"] = 1048576],
     lat |-> [PlainFields(3000) EXCEPT !["lat_1e7"] = 900000001],
     lon |-> [PlainFields(4000) EXCEPT !["lon_1e7"] = 1800000001],
     temp |-> [PlainFields(5000) EXCEPT !["temp_cC"] = 100001],
     extreme |-> BoundaryFields("maxneg", "pressPa", "ones")]

PlainIds == {"a", "b"}
BeyondIds == {"press", "lat", "lon", "temp"}
ReplacementIds == BeyondIds \cup {"extreme"}

\* the 42 bytes of each record of the pool
PoolWire == [id \in DOMAIN PoolFields |-> Pack(ClaimLayout, PoolFields[id])]

RECURSIVE Concat(_, _)
Concat(ids, i) ==
    IF i > Len(ids) THEN <<>> ELSE PoolWire[ids[i]] \o Concat(ids, i + 1)

\* plausible records, at most one of them replaced
RecordLists ==
    LET plain == UNION {[1..k -> PlainIds] : k \in 0..MaxRecords}
    IN  plain \cup
        UNION {{[ids EXCEPT ![p] = r] : p \in DOMAIN ids, r \in ReplacementIds} :
               ids \in plain}

InitBatch ==
    /\ b_made \in RecordLists
    /\ \E tail \in {<<>>, <<255>>} : b_data = Concat(b_made, 1) \o tail
    /\ b_pc = "call"
    /\ b_i = 0
    /\ b_count = 0
    /\ b_packets = <<>>
    /\ b_log = <<>>
    /\ IdleReader
    /\ IdleSign
    /\ IdleCodec
    /\ IdleFilter
    /\ IdleChannel
    /\ IdleParse
    /\ IdlePure
    /\ IdleMain
    /\ IdleFlags
    /\ IdleLength
    /\ IdleKeys

\* data[start:start + PACKET_SIZE]
Slice(data, start, stop) ==
    IF start >= Len(data) THEN <<>> ELSE SubSeq(data, start + 1, Min(stop, Len(data)))

\* decode_file that leaves out the last record of a buffer of whole records
decode_file_enter_short ==
    /\ b_pc = "call"
    /\ b_packets' = <<>>
    /\ b_log' = <<>>
    /\ b_i' = 0
    /\ IF Len(b_data) < PACKET_SIZE
       THEN b_pc' = "done" /\ b_count' = 0
       ELSE b_pc' = "loop" /\ b_count' = (Len(b_data) - 1) \div PACKET_SIZE
    /\ UNCHANGED <<b_data, b_made>>
    /\ UNCHANGED <<varsReader, varsSign, varsCodec, varsFilter, varsChannel, varsParse, varsPure, varsMain, varsFlags, varsLength, varsKeys>>

\* decode_file up to the loop: the size test and the record count
decode_file_enter ==
    /\ b_pc = "call"
    /\ b_packets' = <<>>
    /\ b_log' = <<>>
    /\ b_i' = 0
    /\ IF Len(b_data) < PACKET_SIZE
       THEN b_pc' = "done" /\ b_count' = 0
       ELSE b_pc' = "loop" /\ b_count' = Len(b_data) \div PACKET_SIZE
    /\ UNCHANGED <<b_data, b_made>>
    /\ UNCHANGED <<varsReader, varsSign, varsCodec, varsFilter, varsChannel, varsParse, varsPure, varsMain, varsFlags, varsLength, varsKeys>>

\* one iteration of the loop over the records, try and except included
decode_file_record ==
    /\ b_pc = "loop"
    /\ b_i < b_count
    /\ LET start == b_i * PACKET_SIZE
           block == Slice(b_data, start, start + PACKET_SIZE)
           out == DecodePacket(block)
       IN  IF out.err
           THEN /\ b_log' = Append(b_log, "raised")
                /\ UNCHANGED b_packets
           ELSE IF IsValidPacket(out.pkt)
           THEN /\ b_packets' = Append(b_packets, out.pkt)
                /\ b_log' = Append(b_log, "ok")
           ELSE /\ b_log' = Append(b_log, "invalid")
                /\ UNCHANGED b_packets
    /\ b_i' = b_i + 1
    /\ UNCHANGED <<b_data, b_made, b_count, b_pc>>
    /\ UNCHANGED <<varsReader, varsSign, varsCodec, varsFilter, varsChannel, varsParse, varsPure, varsMain, varsFlags, varsLength, varsKeys>>

\* the loop is over: return packets
decode_file_return ==
    /\ b_pc = "loop"
    /\ b_i = b_count
    /\ b_pc' = "done"
    /\ UNCHANGED <<b_data, b_made, b_count, b_i, b_packets, b_log>>
    /\ UNCHANGED <<varsReader, varsSign, varsCodec, varsFilter, varsChannel, varsParse, varsPure, varsMain, varsFlags, varsLength, varsKeys>>

NextBatch ==
    \/ decode_file_enter
    \/ decode_file_record
    \/ decode_file_return

SpecBatch == InitBatch /\ [][NextBatch]_vars

----------------------------------------------------------------------------
(* FilterManager.apply_filters, after the settings and the rules are loaded *)

\* a packet as _decode_packet builds it, with the time and latitude given
FilterPacket(t, lat) ==
    [ZeroPacket EXCEPT !.time_ms = t, !.lat_1e7 = lat, !.pressPa = 90000]

PacketPool ==
    {FilterPacket(t, 450000000) : t \in {100, 1000, 1500, 3200, 50000, 16777200}}
        \cup {FilterPacket(1500, 399999999)}

\* ten packets, 100 ms apart
TenPackets == [i \in 1..10 |-> FilterPacket(900 + 100 * i, 450000000)]

\* a jump forward, then back near the first time
JumpBack == [i \in 1..4 |-> FilterPacket(<<1000, 50000, 1500, 3200>>[i], 450000000)]

PacketLists ==
    UNION {[1..k -> PacketPool] : k \in 0..MaxPackets} \cup {TenPackets, JumpBack}

NoSettingsFile == [present |-> FALSE, opts |-> EmptyDict, limits |-> {}]
SettingsFile(opts, limits) == [present |-> TRUE, opts |-> opts, limits |-> limits]
NoFilterFile == [present |-> FALSE, time |-> EmptyDict, limits |-> {}, drops |-> <<>>]
FilterFile(time, limits, drops) ==
    [present |-> TRUE, time |-> time, limits |-> limits, drops |-> drops]

LatMin == {<<"lat_1e7", "min", 400000000>>}
DropOne == <<[kind |-> "index", a |-> 1, b |-> 1]>>

\* the settings file and the filter file of a run
Scenarios ==
    << [settings |-> NoSettingsFile, filter |-> NoFilterFile],
       [settings |-> NoSettingsFile,
        filter |-> FilterFile([max_jump_ms |-> 2000, allow_wrap |-> FALSE], {}, <<>>)],
       [settings |-> SettingsFile([time_gap_ms |-> 2000], {}), filter |-> NoFilterFile],
       [settings |-> SettingsFile([max_jump_ms |-> 116, allow_wrap |-> TRUE], {}),
        filter |-> NoFilterFile],
       [settings |-> SettingsFile([max_jump_ms |-> 115, allow_wrap |-> TRUE], {}),
        filter |-> NoFilterFile],
       [settings |-> SettingsFile([allow_wrap |-> TRUE], {}), filter |-> NoFilterFile],
       [settings |-> NoSettingsFile,
        filter |-> FilterFile([max_jump_ms |-> 2000, allow_wrap |-> FALSE], LatMin, <<>>)],
       [settings |-> NoSettingsFile,
        filter |-> FilterFile([max_jump_ms |-> 2000, allow_wrap |-> FALSE], {}, DropOne)],
       [settings |-> SettingsFile(EmptyDict, LatMin),
        filter |-> FilterFile(EmptyDict, {}, DropOne)],
       [settings |-> SettingsFile([max_jump_ms |-> 2000, allow_wrap |-> FALSE], {}),
        filter |-> FilterFile([max_jump_ms |-> 50000], {}, <<>>)],
       [settings |-> NoSettingsFile,
        filter |-> FilterFile(EmptyDict, {}, Items(<<"2", ",", "5", "-", "7">>))] >>

\* ConfigManager() and FilterManager(), and the packets decode_file returned
InitFilter ==
    /\ f_scenario \in 1..Len(Scenarios)
    /\ f_packets \in PacketLists
    /\ f_pc = "settings"
    /\ f_config = [opts |-> EmptyDict, limits |-> EmptyDict]
    /\ f_time_settings = EmptyDict
    /\ f_channel_limits = EmptyDict
    /\ f_manual_drops = {}
    /\ f_filtered_packets = <<>>
    /\ f_prev_time = None
    /\ f_idx = 0
    /\ f_trace = <<>>
    /\ IdleReader /\ IdleSign /\ IdleCodec /\ IdleBatch
    /\ IdleChannel
    /\ IdleParse
    /\ IdlePure
    /\ IdleMain
    /\ IdleFlags
    /\ IdleLength
    /\ IdleKeys

\* main: config_manager.load_settings when a settings file is named
load_settings ==
    /\ f_pc = "settings"
    /\ f_pc' = "filters"
    /\ f_config' = IF Scenarios[f_scenario].settings.present
                   THEN LoadSettings(Scenarios[f_scenario].settings)
                   ELSE f_config
    /\ UNCHANGED <<f_scenario, f_packets, f_time_settings, f_channel_limits,
                   f_manual_drops, f_filtered_packets, f_prev_time, f_idx, f_trace>>
    /\ UNCHANGED <<varsReader, varsSign, varsCodec, varsBatch, varsChannel, varsParse, varsPure, varsMain, varsFlags, varsLength, varsKeys>>

\* main: filter_manager.load_filters when a filter file is named
load_filters ==
    /\ f_pc = "filters"
    /\ f_pc' = "apply"
    /\ LET file == Scenarios[f_scenario].filter
       IN  IF file.present
           THEN /\ f_time_settings' = Update(f_time_settings, file.time)
                /\ f_channel_limits' = MergeLimits(f_channel_limits, LimitsDict(file.limits))
                /\ f_manual_drops' = ParsePacketList(file.drops)
           ELSE UNCHANGED <<f_time_settings, f_channel_limits, f_manual_drops>>
    /\ UNCHANGED <<f_scenario, f_packets, f_config, f_filtered_packets, f_prev_time,
                   f_idx, f_trace>>
    /\ UNCHANGED <<varsReader, varsSign, varsCodec, varsBatch, varsChannel, varsParse, varsPure, varsMain, varsFlags, varsLength, varsKeys>>

\* apply_filters up to the loop: an empty list returns at once, before the merge
apply_filters_enter ==
    /\ f_pc = "apply"
    /\ IF f_packets = <<>>
       THEN /\ f_pc' = "done"
            /\ UNCHANGED <<f_time_settings, f_channel_limits>>
       ELSE /\ f_pc' = "loop"
            /\ f_time_settings' = Update(f_time_settings, GetTimeSettings(f_config))
            /\ f_channel_limits' = MergeLimits(f_channel_limits, GetChannelLimits(f_config))
    /\ f_filtered_packets' = <<>>
    /\ f_prev_time' = None
    /\ f_idx' = 0
    /\ UNCHANGED <<f_scenario, f_packets, f_config, f_manual_drops, f_trace>>
    /\ UNCHANGED <<varsReader, varsSign, varsCodec, varsBatch, varsChannel, varsParse, varsPure, varsMain, varsFlags, varsLength, varsKeys>>

\* the stage that drops packet number idx, or "kept"
Verdict(packet, prev_time, idx) ==
    IF ~PassesTimeFilter(f_time_settings, packet, prev_time) THEN "time"
    ELSE IF ~PassesChannelFilter(f_channel_limits, packet) THEN "channel"
    ELSE IF idx \in f_manual_drops THEN "manual"
    ELSE "kept"

\* one iteration that moves prev_time to every packet it visits
apply_filters_packet_track_all ==
    /\ f_pc = "loop"
    /\ f_idx < Len(f_packets)
    /\ LET packet == f_packets[f_idx + 1]
           verdict == Verdict(packet, f_prev_time, f_idx)
       IN  /\ f_trace' = Append(f_trace, [verdict |-> verdict, prev_time |-> f_prev_time])
           /\ f_filtered_packets' = IF verdict = "kept"
                                    THEN Append(f_filtered_packets, packet)
                                    ELSE f_filtered_packets
           /\ f_prev_time' = Some(packet.time_ms)
    /\ f_idx' = f_idx + 1
    /\ UNCHANGED <<f_scenario, f_packets, f_pc, f_config, f_time_settings,
                   f_channel_limits, f_manual_drops>>
    /\ UNCHANGED <<varsReader, varsSign, varsCodec, varsBatch, varsChannel, varsParse, varsPure, varsMain, varsFlags, varsLength, varsKeys>>

\* one iteration that looks up manual_drops by the position in the output
apply_filters_packet_output_index ==
    /\ f_pc = "loop"
    /\ f_idx < Len(f_packets)
    /\ LET packet == f_packets[f_idx + 1]
           verdict == Verdict(packet, f_prev_time, Len(f_filtered_packets))
       IN  /\ f_trace' = Append(f_trace, [verdict |-> verdict, prev_time |-> f_prev_time])
           /\ IF verdict = "kept"
              THEN /\ f_filtered_packets' = Append(f_filtered_packets, packet)
                   /\ f_prev_time' = Some(packet.time_ms)
              ELSE UNCHANGED <<f_filtered_packets, f_prev_time>>
    /\ f_idx' = f_idx + 1
    /\ UNCHANGED <<f_scenario, f_packets, f_pc, f_config, f_time_settings,
                   f_channel_limits, f_manual_drops>>
    /\ UNCHANGED <<varsReader, varsSign, varsCodec, varsBatch, varsChannel, varsParse, varsPure, varsMain, varsFlags, varsLength, varsKeys>>

\* one iteration that puts an accepted packet at the front of the output
apply_filters_packet_prepend ==
    /\ f_pc = "loop"
    /\ f_idx < Len(f_packets)
    /\ LET packet == f_packets[f_idx + 1]
           verdict == Verdict(packet, f_prev_time, f_idx)
       IN  /\ f_trace' = Append(f_trace, [verdict |-> verdict, prev_time |-> f_prev_time])
           /\ IF verdict = "kept"
              THEN /\ f_filtered_packets' = <<packet>> \o f_filtered_packets
                   /\ f_prev_time' = Some(packet.time_ms)
              ELSE UNCHANGED <<f_filtered_packets, f_prev_time>>
    /\ f_idx' = f_idx + 1
    /\ UNCHANGED <<f_scenario, f_packets, f_pc, f_config, f_time_settings,
                   f_channel_limits, f_manual_drops>>
    /\ UNCHANGED <<varsReader, varsSign, varsCodec, varsBatch, varsChannel, varsParse, varsPure, varsMain, varsFlags, varsLength, varsKeys>>

\* one iteration that takes a dropped packet out of the input list and
\* forgets the manual drops already passed
apply_filters_packet_consuming ==
    /\ f_pc = "loop"
    /\ f_idx < Len(f_packets)
    /\ LET packet == f_packets[f_idx + 1]
           verdict == Verdict(packet, f_prev_time, f_idx)
       IN  /\ f_trace' = Append(f_trace, [verdict |-> verdict, prev_time |-> f_prev_time])
           /\ IF verdict = "kept"
              THEN /\ f_filtered_packets' = Append(f_filtered_packets, packet)
                   /\ f_prev_time' = Some(packet.time_ms)
                   /\ f_idx' = f_idx + 1
                   /\ UNCHANGED f_packets
              ELSE /\ f_packets' = SubSeq(f_packets, 1, f_idx)
                                       \o SubSeq(f_packets, f_idx + 2, Len(f_packets))
                   /\ UNCHANGED <<f_filtered_packets, f_prev_time, f_idx>>
    /\ f_manual_drops' = f_manual_drops \ {f_idx}
    /\ UNCHANGED <<f_scenario, f_pc, f_config, f_time_settings, f_channel_limits>>
    /\ UNCHANGED <<varsReader, varsSign, varsCodec, varsBatch, varsChannel, varsParse,
                   varsPure, varsMain, varsFlags, varsLength, varsKeys>>

\* one iteration of the loop of apply_filters
apply_filters_packet ==
    /\ f_pc = "loop"
    /\ f_idx < Len(f_packets)
    /\ LET packet == f_packets[f_idx + 1]
           verdict == Verdict(packet, f_prev_time, f_idx)
       IN  /\ f_trace' = Append(f_trace, [verdict |-> verdict, prev_time |-> f_prev_time])
           /\ IF verdict = "kept"
              THEN /\ f_filtered_packets' = Append(f_filtered_packets, packet)
                   /\ f_prev_time' = Some(packet.time_ms)
              ELSE UNCHANGED <<f_filtered_packets, f_prev_time>>
    /\ f_idx' = f_idx + 1
    /\ UNCHANGED <<f_scenario, f_packets, f_pc, f_config, f_time_settings,
                   f_channel_limits, f_manual_drops>>
    /\ UNCHANGED <<varsReader, varsSign, varsCodec, varsBatch, varsChannel, varsParse, varsPure, varsMain, varsFlags, varsLength, varsKeys>>

\* return filtered_packets
apply_filters_return ==
    /\ f_pc = "loop"
    /\ f_idx = Len(f_packets)
    /\ f_pc' = "done"
    /\ UNCHANGED <<f_scenario, f_packets, f_config, f_time_settings, f_channel_limits,
                   f_manual_drops, f_filtered_packets, f_prev_time, f_idx, f_trace>>
    /\ UNCHANGED <<varsReader, varsSign, varsCodec, varsBatch, varsChannel, varsParse, varsPure, varsMain, varsFlags, varsLength, varsKeys>>

NextFilter ==
    \/ load_settings
    \/ load_filters
    \/ apply_filters_enter
    \/ apply_filters_packet
    \/ apply_filters_return

SpecFilter == InitFilter /\ [][NextFilter]_vars

----------------------------------------------------------------------------
(* Claims about the BitReader *)

\* stream bit k: bit (k mod 8) of byte (k div 8), counted from the LSB
StreamBit(data, k) == (data[k \div 8 + 1] \div Pow2(k % 8)) % 2

\* the unsigned integer whose bit i is stream bit p + i, for i < n
RECURSIVE StreamValue(_, _, _)
StreamValue(data, p, n) ==
    IF n = 0 THEN 0 ELSE StreamBit(data, p) + 2 * StreamValue(data, p + 1, n - 1)

LastCall == r_calls[Len(r_calls)]

\* C3: a read_bits(n) with n >= 0 that fits in the buffer returns the integer
\* whose bit i is stream bit p+i (LSB-first), leaves the cursor at p + n and
\* bits_left() at 8*len(buffer) - (p + n).
C3_ReadBitsValue ==
    (r_calls # <<>> /\ LastCall.n >= 0
        /\ LastCall.before + LastCall.n <= 8 * Len(r_data))
    => /\ ~LastCall.err
       /\ LastCall.value = StreamValue(r_data, LastCall.before, LastCall.n)
       /\ r_bit_pos = LastCall.before + LastCall.n
       /\ LastCall.left = 8 * Len(r_data) - (LastCall.before + LastCall.n)

\* a 10-bit read that starts at bit 7 of a byte and so touches three bytes
C3_Witness ==
    /\ r_calls # <<>>
    /\ ~LastCall.err
    /\ LastCall.n = 10
    /\ LastCall.before % 8 = 7
    /\ LastCall.value > 0

\* C4: a read_bits(n) with n greater than the unread bits fails and consumes
\* nothing: cursor and bits_left() are as before the call, and the read that
\* follows returns what it would have returned without the failed call.
C4_FailedReadConsumesNothing ==
    /\ (r_calls # <<>> /\ LastCall.n > r_max_bits - LastCall.before)
        => /\ LastCall.err
           /\ r_bit_pos = LastCall.before
           /\ LastCall.left = BitsLeft(r_max_bits, LastCall.before)
    /\ (Len(r_calls) = 2 /\ r_calls[1].err)
        => /\ r_calls[2].before = r_calls[1].before
           /\ r_calls[2].err =
                 ReadRaises(r_calls[1].before, r_max_bits, r_calls[2].n)
           /\ (~r_calls[2].err =>
                 r_calls[2].value =
                     StreamValue(r_data, r_calls[1].before, r_calls[2].n))

\* after successful reads, a read that asks too much fails and the next read
\* of what is left succeeds
C4_Witness ==
    /\ Len(r_calls) = 2
    /\ r_calls[1].err /\ r_calls[1].n > 0 /\ r_calls[1].before > 0
    /\ ~r_calls[2].err /\ r_calls[2].n > 0
    /\ r_calls[2].n <= r_max_bits - r_calls[1].before

\* C5: read_bits(n1) = a followed by read_bits(n2) = b gives
\* a + b * 2^n1 = the value of one read_bits(n1 + n2) from the same position,
\* and both ways end at the same cursor.
C5_SplitReadsCompose ==
    (Len(r_calls) = 2 /\ ~r_calls[1].err /\ ~r_calls[2].err)
    => LET one == ReadBits(r_data, r_calls[1].before, r_max_bits,
                           r_calls[1].n + r_calls[2].n)
       IN  /\ ~one.err
           /\ r_calls[1].value + r_calls[2].value * Pow2(r_calls[1].n) = one.value
           /\ r_bit_pos = one.pos

\* a split inside a byte, the second read spanning more than one byte
C5_Witness ==
    /\ Len(r_calls) = 2
    /\ ~r_calls[1].err /\ ~r_calls[2].err
    /\ r_calls[1].before % 8 # 0
    /\ r_calls[1].n > 0
    /\ r_calls[2].before % 8 # 0
    /\ r_calls[2].n >= 9
    /\ r_calls[1].value > 0 /\ r_calls[2].value > 0

----------------------------------------------------------------------------
(* Claims about _sign_extend *)

\* C6: for bits in {14, 16, 30} and value in 0..2^bits-1, _sign_extend returns
\* value - 2^bits when bit (bits-1) of value is set and value otherwise; the
\* four boundary values map to 0, -2^(b-1), 2^(b-1)-1 and -1, and the result
\* lies in -2^(b-1)..2^(b-1)-1.
C6_SignExtend ==
    s_done =>
        /\ s_result = IF (s_value \div Pow2(s_bits - 1)) % 2 = 1
                      THEN s_value - Pow2(s_bits) ELSE s_value
        /\ s_result >= -Pow2(s_bits - 1)
        /\ s_result <= Pow2(s_bits - 1) - 1
        /\ (s_value = 0 => s_result = 0)
        /\ (s_value = Pow2(s_bits - 1) => s_result = -Pow2(s_bits - 1))
        /\ (s_value = Pow2(s_bits - 1) - 1 => s_result = Pow2(s_bits - 1) - 1)
        /\ (s_value = Pow2(s_bits) - 1 => s_result = -1)

\* the sign bit alone, 30 bits wide, has been extended to a negative value
C6_Witness ==
    /\ s_done
    /\ s_bits = 30
    /\ s_value = Pow2(29)
    /\ s_result < 0

----------------------------------------------------------------------------
(* Claims about the packet codec *)

\* the decoded packet holds, field for field, the values that were packed
DecodedEqualsPacked ==
    /\ ~c_out.err
    /\ \A n \in FieldNames \ {"flags", "dummy"} : c_out.pkt[n] = c_fields[n]
    /\ \A k \in 1..8 :
          c_out.pkt.flags[FlagNames[k]] = ((c_fields["flags"] \div Pow2(k - 1)) % 2 = 1)

\* C1: in-range field values (0, max-positive, max-negative, all-bits-set of
\* each width among them) packed LSB-first in the order time_ms, temp_cC,
\* pressPa, lat_1e7, lon_1e7, dummy, mag, accel, gyro, flags, radData into 42
\* bytes decode to a packet whose every field equals the value packed.
C1_RoundTrip ==
    (c_stage = "decoded" /\ c_src = "spec") => DecodedEqualsPacked

\* all bits set everywhere except a latitude of the sign bit alone
C1_Witness ==
    /\ c_stage = "decoded"
    /\ c_src = "spec"
    /\ c_fields["lat_1e7"] = -Pow2(29)
    /\ c_out.pkt.lat_1e7 = -Pow2(29)
    /\ c_out.pkt.time_ms = Pow2(24) - 1
    /\ c_out.pkt.temp_cC = -1
    /\ c_out.pkt.flags.start

\* C2: for every packet generate_test_packet writes, _decode_packet returns,
\* for every field, the value the generator packed.
C2_GeneratorRoundTrip ==
    (c_stage = "decoded" /\ c_src = "generator") => DecodedEqualsPacked

----------------------------------------------------------------------------
(* Claims about decode_file *)

\* the i-th 42-byte window of the buffer, i counted from 0
Window(data, i) == SubSeq(data, i * PACKET_SIZE + 1, (i + 1) * PACKET_SIZE)

\* what becomes of record i on its own: its decode raises, its validation
\* fails, or it is kept
RecordOutcome(data, i) ==
    LET out == DecodePacket(Window(data, i))
    IN  IF out.err THEN "raised"
        ELSE IF IsValidPacket(out.pkt) THEN "ok" ELSE "invalid"

\* the packets of the non-failing records among records i..n-1, by index
RECURSIVE Survivors(_, _, _)
Survivors(data, i, n) ==
    IF i >= n THEN <<>>
    ELSE (IF RecordOutcome(data, i) = "ok"
          THEN <<DecodePacket(Window(data, i)).pkt>> ELSE <<>>)
         \o Survivors(data, i + 1, n)

\* the decoded packet holds the values record id was packed from
PacketOf(pkt, id) ==
    /\ \A n \in FieldNames \ {"flags", "dummy"} : pkt[n] = PoolFields[id][n]
    /\ pkt.flags = FromByte(PoolFields[id]["flags"])

\* the plausibility bounds, as the data model states them
Plausible(pkt) ==
    /\ 0 <= pkt.pressPa /\ pkt.pressPa < 1048576
    /\ -900000000 <= pkt.lat_1e7 /\ pkt.lat_1e7 <= 900000000
    /\ -1800000000 <= pkt.lon_1e7 /\ pkt.lon_1e7 <= 1800000000
    /\ -100000 <= pkt.temp_cC /\ pkt.temp_cC <= 100000

ThreeRecords == b_pc = "done" /\ Len(b_data) = 3 * PACKET_SIZE

----------------------------------------------------------------------------
(* FilterManager._passes_channel_filter on its own *)

\* channel_limits holding the bounds <<channel, "min" or "max", value>>
\* under the channel names as given
ChannelLimits(bounds) ==
    [c \in {t[1] : t \in bounds} |->
        [k \in {t[2] : t \in {u \in bounds : u[1] = c}} |->
            (CHOOSE t \in bounds : t[1] = c /\ t[2] = k)[3]]]

BoundPool ==
    {<<"pressPa", "min", 60000>>, <<"pressPa", "max", 100000>>,
     <<"temp_cC", "max", 2500>>, <<"flags", "min", 1>>, <<"speed", "max", 0>>}

ChannelPackets ==
    {[ZeroPacket EXCEPT !.pressPa = p, !.temp_cC = t] :
        p \in {59999, 60000, 80000, 100000, 100001}, t \in {2500, 2501}}

InitChannel ==
    /\ k_bounds \in SUBSET BoundPool
    /\ k_packet \in ChannelPackets
    /\ k_passed = FALSE
    /\ k_done = FALSE
    /\ IdleReader /\ IdleSign /\ IdleCodec /\ IdleBatch /\ IdleFilter
    /\ IdleParse
    /\ IdlePure
    /\ IdleMain
    /\ IdleFlags
    /\ IdleLength
    /\ IdleKeys

\* self._passes_channel_filter(packet)
passes_channel_filter ==
    /\ ~k_done
    /\ k_passed' = PassesChannelFilter(ChannelLimits(k_bounds), k_packet)
    /\ k_done' = TRUE
    /\ UNCHANGED <<k_bounds, k_packet>>
    /\ UNCHANGED <<varsReader, varsSign, varsCodec, varsBatch, varsFilter, varsParse, varsPure, varsMain, varsFlags, varsLength, varsKeys>>

NextChannel == passes_channel_filter

SpecChannel == InitChannel /\ [][NextChannel]_vars

----------------------------------------------------------------------------
(* FilterManager._parse_packet_list on its own *)

Alphabet == {"2", "5", "-", ",", " ", "x"}

DropLists ==
    UNION {[1..k -> Alphabet] : k \in 0..MaxText}
        \cup {<<"2", ",", "5", "-", "7">>,
              <<"1", "7", ",", "4", "2", ",", "1", "5", "3", "-", "1", "6", "0">>,
              <<"2", ",", "5", "-", ",", "7", "-", "9">>,
              <<"3", "-", "x", ",", " ", "4", " ", "-", " ", "6", " ">>}

InitParse ==
    /\ p_drop_list \in DropLists
    /\ p_drops = {}
    /\ p_done = FALSE
    /\ IdleReader /\ IdleSign /\ IdleCodec /\ IdleBatch /\ IdleFilter /\ IdleChannel
    /\ IdlePure
    /\ IdleMain
    /\ IdleFlags
    /\ IdleLength
    /\ IdleKeys

\* self._parse_packet_list(drop_list)
parse_packet_list ==
    /\ ~p_done
    /\ p_drops' = ParsePacketList(Items(p_drop_list))
    /\ p_done' = TRUE
    /\ UNCHANGED p_drop_list
    /\ UNCHANGED <<varsReader, varsSign, varsCodec, varsBatch, varsFilter, varsChannel, varsPure, varsMain, varsFlags, varsLength, varsKeys>>

NextParse == parse_packet_list

SpecParse == InitParse /\ [][NextParse]_vars

----------------------------------------------------------------------------
(* several apply_filters calls on one FilterManager *)

\* the config managers a call may be given
PureConfigs ==
    << LoadSettings(SettingsFile(EmptyDict, {})),
       LoadSettings(SettingsFile([max_jump_ms |-> 2000, allow_wrap |-> FALSE], {})),
       LoadSettings(SettingsFile(EmptyDict, LatMin)) >>

PureLists ==
    {<<FilterPacket(1000, 450000000), FilterPacket(50000, 450000000)>>,
     <<FilterPacket(1000, 450000000), FilterPacket(1500, 399999999)>>}

\* FilterManager(), with or without a filter file to load, and the first call
InitPure ==
    /\ f_scenario \in {1, 8}
    /\ f_packets \in PureLists
    /\ h_cfg \in 1..Len(PureConfigs)
    /\ f_config = PureConfigs[h_cfg]
    /\ f_pc = "filters"
    /\ f_time_settings = EmptyDict
    /\ f_channel_limits = EmptyDict
    /\ f_manual_drops = {}
    /\ f_filtered_packets = <<>>
    /\ f_prev_time = None
    /\ f_idx = 0
    /\ f_trace = <<>>
    /\ h_calls = <<>>
    /\ IdleReader /\ IdleSign /\ IdleCodec /\ IdleBatch /\ IdleChannel /\ IdleParse
    /\ IdleMain
    /\ IdleFlags
    /\ IdleLength
    /\ IdleKeys

\* the caller takes the result and calls apply_filters once more on the same
\* FilterManager, with any packets and any config manager
apply_filters_again ==
    /\ f_pc = "done"
    /\ Len(h_calls) + 1 < MaxCalls
    /\ h_calls' = Append(h_calls, [cfg |-> h_cfg, packets |-> f_packets,
                                   output |-> f_filtered_packets])
    /\ h_cfg' \in 1..Len(PureConfigs)
    /\ f_config' = PureConfigs[h_cfg']
    /\ f_packets' \in PureLists
    /\ f_pc' = "apply"
    /\ f_idx' = 0
    /\ f_trace' = <<>>
    /\ UNCHANGED <<f_scenario, f_time_settings, f_channel_limits, f_manual_drops,
                   f_filtered_packets, f_prev_time>>
    /\ UNCHANGED <<varsReader, varsSign, varsCodec, varsBatch, varsChannel, varsParse, varsMain, varsFlags, varsLength, varsKeys>>

NextPure ==
    \/ load_filters
    \/ apply_filters_enter
    \/ apply_filters_packet
    \/ apply_filters_return
    \/ apply_filters_again

SpecPure == InitPure /\ [][NextPure]_vars

----------------------------------------------------------------------------
(* app.main: the run from the arguments to the exit code *)

\* what the run can meet: the settings file and the filter file (not named,
\* readable, or missing), the input at the time of the checks (missing, or
\* present with a size), the input when decode_file reads it (as checked,
\* emptied meanwhile, or gone), whether any packet survives the filters, and
\* the two outputs (asked for or not, succeeding or raising); parse_args
\* insists on at least one output
Runs ==
    {e \in [settings : {"none", "ok", "missing"},
            input : {"missing", "present"},
            size : {0, 41, 42, 84},
            read : {"same", "emptied", "gone"},
            filter_file : {"none", "ok", "missing"},
            survive : {"all", "none"},
            to_csv : BOOLEAN, csv_ok : BOOLEAN,
            graphs : BOOLEAN, plot_ok : BOOLEAN] :
        /\ e.to_csv \/ e.graphs
        /\ (~e.to_csv => e.csv_ok)
        /\ (~e.graphs => e.plot_ok)
        /\ (e.input = "missing" => e.size = 0 /\ e.read = "gone")}

InitMain ==
    /\ m_env \in Runs
    /\ m_pc = "start"
    /\ m_packets = 0
    /\ m_decode_calls = 0
    /\ m_rc = -1
    /\ m_log = ""
    /\ IdleReader /\ IdleSign /\ IdleCodec /\ IdleBatch /\ IdleFilter
    /\ IdleChannel /\ IdleParse /\ IdlePure
    /\ IdleFlags
    /\ IdleLength
    /\ IdleKeys

\* return code: log the error and leave main
Return(code, message) ==
    /\ m_rc' = code
    /\ m_log' = message
    /\ m_pc' = "exit"

\* load the configuration; a missing settings file raises FileNotFoundError,
\* which the outer except turns into 1
main_configure ==
    /\ m_pc = "start"
    /\ IF m_env.settings = "missing"
       THEN Return(1, "Unexpected error")
       ELSE m_pc' = "validate" /\ UNCHANGED <<m_rc, m_log>>
    /\ UNCHANGED <<m_env, m_packets, m_decode_calls>>
    /\ UNCHANGED <<varsReader, varsSign, varsCodec, varsBatch, varsFilter, varsChannel,
                   varsParse, varsPure, varsFlags, varsLength, varsKeys>>

\* validate the input file
main_validate ==
    /\ m_pc = "validate"
    /\ IF m_env.input = "missing" THEN Return(2, "Input file not found")
       ELSE IF m_env.size = 0 THEN Return(2, "Input file is empty")
       ELSE IF m_env.size % 42 # 0 THEN Return(3, "File size is not divisible by 42")
       ELSE m_pc' = "decode" /\ UNCHANGED <<m_rc, m_log>>
    /\ UNCHANGED <<m_env, m_packets, m_decode_calls>>
    /\ UNCHANGED <<varsReader, varsSign, varsCodec, varsBatch, varsFilter, varsChannel,
                   varsParse, varsPure, varsFlags, varsLength, varsKeys>>

\* decode_file reads the file anew and returns one packet per whole record;
\* read_bytes raises if the file is gone
main_decode ==
    /\ m_pc = "decode"
    /\ m_decode_calls' = m_decode_calls + 1
    /\ LET data_len == IF m_env.read = "same" THEN m_env.size ELSE 0
           count == IF data_len < PACKET_SIZE THEN 0 ELSE data_len \div PACKET_SIZE
       IN  IF m_env.read = "gone"
           THEN Return(1, "Unexpected error") /\ UNCHANGED m_packets
           ELSE IF count = 0
           THEN Return(2, "No valid packets found") /\ m_packets' = 0
           ELSE m_pc' = "filter" /\ m_packets' = count /\ UNCHANGED <<m_rc, m_log>>
    /\ UNCHANGED m_env
    /\ UNCHANGED <<varsReader, varsSign, varsCodec, varsBatch, varsFilter, varsChannel,
                   varsParse, varsPure, varsFlags, varsLength, varsKeys>>

\* load the filter file if one is named, then apply_filters
main_filter ==
    /\ m_pc = "filter"
    /\ IF m_env.filter_file = "missing"
       THEN Return(1, "Unexpected error") /\ UNCHANGED m_packets
       ELSE IF m_env.survive = "none"
       THEN Return(4, "No packets remain after filtering") /\ m_packets' = 0
       ELSE m_pc' = "csv" /\ UNCHANGED <<m_packets, m_rc, m_log>>
    /\ UNCHANGED <<m_env, m_decode_calls>>
    /\ UNCHANGED <<varsReader, varsSign, varsCodec, varsBatch, varsFilter, varsChannel,
                   varsParse, varsPure, varsFlags, varsLength, varsKeys>>

\* export to CSV if asked
main_csv ==
    /\ m_pc = "csv"
    /\ IF m_env.to_csv /\ ~m_env.csv_ok
       THEN Return(4, "Failed to write CSV")
       ELSE m_pc' = "plot" /\ UNCHANGED <<m_rc, m_log>>
    /\ UNCHANGED <<m_env, m_packets, m_decode_calls>>
    /\ UNCHANGED <<varsReader, varsSign, varsCodec, varsBatch, varsFilter, varsChannel,
                   varsParse, varsPure, varsFlags, varsLength, varsKeys>>

\* generate plots if asked, then return 0
main_plot ==
    /\ m_pc = "plot"
    /\ IF m_env.graphs /\ ~m_env.plot_ok
       THEN Return(4, "Failed to generate plots")
       ELSE Return(0, "")
    /\ UNCHANGED <<m_env, m_packets, m_decode_calls>>
    /\ UNCHANGED <<varsReader, varsSign, varsCodec, varsBatch, varsFilter, varsChannel,
                   varsParse, varsPure, varsFlags, varsLength, varsKeys>>

NextMain ==
    \/ main_configure
    \/ main_validate
    \/ main_decode
    \/ main_filter
    \/ main_csv
    \/ main_plot

SpecMain == InitMain /\ [][NextMain]_vars

----------------------------------------------------------------------------
(* the flags byte on its way to the CSV row *)

InitFlags ==
    /\ g_byte \in 0..255
    /\ g_pc = "byte"
    /\ g_flags = FromByte(0)
    /\ g_string = <<>>
    /\ IdleReader /\ IdleSign /\ IdleCodec /\ IdleBatch /\ IdleFilter
    /\ IdleChannel /\ IdleParse /\ IdlePure /\ IdleMain
    /\ IdleLength
    /\ IdleKeys

\* SystemFlags.from_byte(flags_byte), in _decode_packet
from_byte ==
    /\ g_pc = "byte"
    /\ g_flags' = FromByte(g_byte)
    /\ g_pc' = "flags"
    /\ UNCHANGED <<g_byte, g_string>>
    /\ UNCHANGED <<varsReader, varsSign, varsCodec, varsBatch, varsFilter, varsChannel,
                   varsParse, varsPure, varsMain, varsLength, varsKeys>>

\* packet.to_dict()['flags'], in CSVExporter.export
to_dict_flags ==
    /\ g_pc = "flags"
    /\ g_string' = to_string(g_flags)
    /\ g_pc' = "string"
    /\ UNCHANGED <<g_byte, g_flags>>
    /\ UNCHANGED <<varsReader, varsSign, varsCodec, varsBatch, varsFilter, varsChannel,
                   varsParse, varsPure, varsMain, varsLength, varsKeys>>

NextFlags == from_byte \/ to_dict_flags

SpecFlags == InitFlags /\ [][NextFlags]_vars

----------------------------------------------------------------------------
(* the decoder handed one block of any length *)

\* blocks of 0..MaxLength bytes and one of two records' length
Blocks ==
    {[i \in 1..n |-> b] : n \in (0..MaxLength) \cup {2 * PACKET_SIZE}, b \in {0, 165}}

InitLength ==
    /\ d_data \in Blocks
    /\ d_pc = "call"
    /\ d_out = NoOut
    /\ d_logged = [raised |-> FALSE, value |-> None]
    /\ IdleReader /\ IdleSign /\ IdleCodec /\ IdleBatch /\ IdleFilter
    /\ IdleChannel /\ IdleParse /\ IdlePure /\ IdleMain /\ IdleFlags
    /\ IdleKeys

\* self._decode_packet(data)
decode_packet_any ==
    /\ d_pc = "call"
    /\ d_out' = DecodePacket(d_data)
    /\ d_pc' = "decoded"
    /\ UNCHANGED <<d_data, d_logged>>
    /\ UNCHANGED <<varsReader, varsSign, varsCodec, varsBatch, varsFilter, varsChannel,
                   varsParse, varsPure, varsMain, varsFlags, varsKeys>>

\* self.decode_packet_with_log(data)
decode_packet_with_log ==
    /\ d_pc = "decoded"
    /\ d_logged' = DecodePacketWithLog(d_data)
    /\ d_pc' = "logged"
    /\ UNCHANGED <<d_data, d_out>>
    /\ UNCHANGED <<varsReader, varsSign, varsCodec, varsBatch, varsFilter, varsChannel,
                   varsParse, varsPure, varsMain, varsFlags, varsKeys>>

NextLength == decode_packet_any \/ decode_packet_with_log

SpecLength == InitLength /\ [][NextLength]_vars

----------------------------------------------------------------------------
(* one channel bound from its file to the channel stage *)

\* the file's only bound: c_min = 10 or c_max = 10
OneBound(channel, kind) == {<<channel, kind, 10>>}

\* a packet whose field c is 5 below a min of 10, or 5 above a max of 10
BeyondBound(channel, kind) ==
    [ZeroPacket EXCEPT ![channel] = IF kind = "min" THEN 5 ELSE 15]

InitKeys ==
    /\ y_channel \in Channels
    /\ y_kind \in {"min", "max"}
    /\ y_source \in {"filter", "settings"}
    /\ y_pc = "file"
    /\ y_limits = EmptyDict
    /\ y_passed = FALSE
    /\ IdleReader /\ IdleSign /\ IdleCodec /\ IdleBatch /\ IdleFilter
    /\ IdleChannel /\ IdleParse /\ IdlePure /\ IdleMain /\ IdleFlags /\ IdleLength

\* the bound reaches channel_limits: from the filter file through
\* load_filters, or from the settings file through load_settings,
\* get_channel_limits and _merge_config_settings
load_bound ==
    /\ y_pc = "file"
    /\ y_limits' =
          IF y_source = "filter"
          THEN MergeLimits(EmptyDict, LimitsDict(OneBound(y_channel, y_kind)))
          ELSE MergeLimits(EmptyDict,
                   GetChannelLimits(LoadSettings(
                       SettingsFile(EmptyDict, OneBound(y_channel, y_kind)))))
    /\ y_pc' = "loaded"
    /\ UNCHANGED <<y_channel, y_kind, y_source, y_passed>>
    /\ UNCHANGED <<varsReader, varsSign, varsCodec, varsBatch, varsFilter, varsChannel,
                   varsParse, varsPure, varsMain, varsFlags, varsLength>>

\* the channel stage on a packet beyond the bound
filter_beyond_bound ==
    /\ y_pc = "loaded"
    /\ y_passed' = PassesChannelFilter(y_limits, BeyondBound(y_channel, y_kind))
    /\ y_pc' = "filtered"
    /\ UNCHANGED <<y_channel, y_kind, y_source, y_limits>>
    /\ UNCHANGED <<varsReader, varsSign, varsCodec, varsBatch, varsFilter, varsChannel,
                   varsParse, varsPure, varsMain, varsFlags, varsLength>>

NextKeys == load_bound \/ filter_beyond_bound

SpecKeys == InitKeys /\ [][NextKeys]_vars

----------------------------------------------------------------------------
(* apply_filters: the time stage and its baseline *)

Times(ps) == [i \in DOMAIN ps |-> ps[i].time_ms]
Verdicts == [i \in DOMAIN f_trace |-> f_trace[i].verdict]

\* the merged settings are in force once the loop runs
Merged == f_pc = "loop" \/ (f_pc = "done" /\ f_packets # <<>>)

HasJump == "max_jump_ms" \in DOMAIN f_time_settings
WrapOn == "allow_wrap" \in DOMAIN f_time_settings /\ f_time_settings["allow_wrap"]

\* D of packet j against the baseline p: t - p, plus 2^24 when negative and
\* wrap-around is allowed
D(j) ==
    LET d == f_packets[j].time_ms - f_trace[j].prev_time[1]
    IN  IF d < 0 /\ WrapOn THEN d + 16777216 ELSE d

\* C9: the first packet always passes the time stage; a later packet with
\* time t and baseline p is dropped by the time stage when D > max_jump_ms,
\* where D = t - p, plus 2^24 if D is negative and allow_wrap is on.  Times
\* 1000, 1500, 50000 with max_jump_ms 2000 and no wrap keep the first two;
\* 16777200 then 100 with allow_wrap gives D = 116 and passes whenever
\* max_jump_ms >= 116.
C9_TimeStage ==
    Merged =>
        /\ \A j \in DOMAIN f_trace :
              /\ (j = 1 => f_trace[j].verdict # "time")
              /\ (f_trace[j].prev_time # None /\ HasJump
                      /\ D(j) > f_time_settings["max_jump_ms"]
                  => f_trace[j].verdict = "time")
        /\ (/\ Times(f_packets) = <<1000, 1500, 50000>>
            /\ HasJump /\ f_time_settings["max_jump_ms"] = 2000 /\ ~WrapOn
            /\ DOMAIN f_channel_limits = {} /\ f_manual_drops = {}
            /\ f_pc = "done"
            => /\ Verdicts = <<"kept", "kept", "time">>
               /\ D(3) = 48500
               /\ Times(f_filtered_packets) = <<1000, 1500>>)
        /\ (/\ Times(f_packets) = <<16777200, 100>>
            /\ Len(f_trace) = 2
            /\ WrapOn
            => /\ D(2) = 116
               /\ (HasJump /\ f_time_settings["max_jump_ms"] >= 116
                      => f_trace[2].verdict # "time")
               /\ (~HasJump => f_trace[2].verdict # "time"))

\* a wrapped counter judged against a limit of 115: D = 116, dropped
C9_Witness ==
    /\ f_pc = "done"
    /\ Times(f_packets) = <<16777200, 100, 1000>>
    /\ WrapOn /\ HasJump /\ f_time_settings["max_jump_ms"] = 115
    /\ Verdicts = <<"kept", "time", "time">>
    /\ D(2) = 116

\* time of the last packet accepted before packet j, None if there is none
LastAccepted(j) ==
    LET kept == {k \in 1..(j - 1) : f_trace[k].verdict = "kept"}
    IN  IF kept = {} THEN None
        ELSE Some(f_packets[CHOOSE k \in kept : \A m \in kept : m <= k].time_ms)

\* C10: the time-stage baseline is the time of the last packet accepted by
\* all three stages; a packet dropped by the time, channel or manual stage
\* leaves it unchanged, so the next packet is compared against the last
\* accepted one.
C10_BaselineIsLastAccepted ==
    /\ \A j \in DOMAIN f_trace : f_trace[j].prev_time = LastAccepted(j)
    /\ f_pc \in {"loop", "done"} =>
          /\ f_prev_time = LastAccepted(f_idx + 1)
          /\ f_prev_time = IF f_filtered_packets = <<>> THEN None
                           ELSE Some(f_filtered_packets[Len(f_filtered_packets)].time_ms)

\* 1500 is dropped by the channel stage, so 3200 is judged against 1000 and
\* dropped (2200 > 2000); against 1500 it would have passed
C10_Witness ==
    /\ f_pc = "done"
    /\ Times(f_packets) = <<1000, 1500, 3200>>
    /\ Verdicts = <<"kept", "channel", "time">>
    /\ f_trace[3].prev_time = Some(1000)
    /\ f_prev_time = Some(1000)

\* C11: whenever allow_wrap is absent or false, with max_jump_ms configured
\* or not, a later packet whose time is below the baseline is dropped by the
\* time stage, so the times of the output never decrease.
C11_BackwardTimeDropped ==
    (Merged /\ ~WrapOn) =>
        /\ \A j \in DOMAIN f_trace :
              (f_trace[j].prev_time # None
                   /\ f_packets[j].time_ms < f_trace[j].prev_time[1])
                  => f_trace[j].verdict = "time"
        /\ \A i \in 1..(Len(f_filtered_packets) - 1) :
              f_filtered_packets[i].time_ms <= f_filtered_packets[i + 1].time_ms

\* the filter file of the run has been read
Loaded == f_pc \in {"apply", "loop", "done"}

\* C13: the manual stage drops a packet iff its zero-based position in the
\* input sequence is in the set built from the literal indices and inclusive
\* ranges of the drop list, however many earlier packets were dropped; with
\* drop list '2,5-7', 10 packets and no other filter the output is the packets
\* at positions 0, 1, 3, 4, 8, 9 in that order.
C13_ManualUsesInputIndex ==
    /\ \A j \in DOMAIN f_trace :
          f_trace[j].verdict \in {"manual", "kept"}
              => (f_trace[j].verdict = "manual" <=> (j - 1) \in f_manual_drops)
    /\ (Loaded /\ f_scenario = 11) => f_manual_drops = {2, 5, 6, 7}
    /\ (Loaded /\ f_scenario \in {8, 9}) => f_manual_drops = {1}
    /\ (f_pc = "done" /\ f_scenario = 11 /\ f_packets = TenPackets)
          => f_filtered_packets = <<TenPackets[1], TenPackets[2], TenPackets[4],
                                    TenPackets[5], TenPackets[9], TenPackets[10]>>

\* the ten packets went through with drop list '2,5-7' and six came out
C13_Witness ==
    /\ f_pc = "done"
    /\ f_scenario = 11
    /\ f_packets = TenPackets
    /\ Verdicts = <<"kept", "kept", "manual", "kept", "kept",
                    "manual", "manual", "manual", "kept", "kept">>
    /\ Len(f_filtered_packets) = 6

\* input positions of the packets accepted so far
KeptPositions == {j \in DOMAIN f_trace : f_trace[j].verdict = "kept"}

\* the i-th smallest member of a set of positions
NthOf(S, i) == CHOOSE j \in S : Cardinality({k \in S : k <= j}) = i

\* C14: the output of apply_filters is an order-preserving sub-sequence of its
\* input: every output packet is the input packet at some position, no
\* position is used twice, the positions increase along the output, and the
\* output is never longer than the input.
C14_OrderedSubsequence ==
    /\ Len(f_filtered_packets) <= Len(f_packets)
    /\ Len(f_filtered_packets) = Cardinality(KeptPositions)
    /\ \A i \in DOMAIN f_filtered_packets :
          f_filtered_packets[i] = f_packets[NthOf(KeptPositions, i)]
    /\ f_packets # TenPackets =>
          \E pos \in [DOMAIN f_filtered_packets -> DOMAIN f_packets] :
              /\ \A i \in DOMAIN pos : f_filtered_packets[i] = f_packets[pos[i]]
              /\ \A i, k \in DOMAIN pos : i < k => pos[i] < pos[k]

\* three different packets, the middle one dropped: the first and the third
\* come out in that order
C14_Witness ==
    /\ f_pc = "done"
    /\ Times(f_packets) = <<1000, 50000, 1500>>
    /\ Verdicts = <<"kept", "time", "kept">>
    /\ Times(f_filtered_packets) = <<1000, 1500>>

----------------------------------------------------------------------------
(* the channel-range stage *)

\* C12: a packet is dropped by the channel-range stage iff some configured
\* channel other than flags has its value below the configured min or above
\* the configured max; a value equal to a bound is kept, an absent bound and a
\* bound on flags never drop.  With pressPa min 60000 and max 100000 exactly
\* the packets with pressPa in 60000..100000 pass.
C12_ClosedInterval ==
    k_done =>
        /\ k_passed <=>
              /\ (<<"pressPa", "min", 60000>> \in k_bounds => k_packet.pressPa >= 60000)
              /\ (<<"pressPa", "max", 100000>> \in k_bounds => k_packet.pressPa <= 100000)
              /\ (<<"temp_cC", "max", 2500>> \in k_bounds => k_packet.temp_cC <= 2500)
        /\ (k_bounds = {<<"pressPa", "min", 60000>>, <<"pressPa", "max", 100000>>}
               => (k_passed <=> k_packet.pressPa \in 60000..100000))
        /\ (k_bounds \subseteq {<<"flags", "min", 1>>, <<"speed", "max", 0>>} => k_passed)

\* a packet exactly at the upper bound, with both bounds and a bound on
\* flags configured, passes
C12_Witness ==
    /\ k_done
    /\ k_bounds = {<<"pressPa", "min", 60000>>, <<"pressPa", "max", 100000>>,
                   <<"flags", "min", 1>>}
    /\ k_packet.pressPa = 100000
    /\ k_passed

----------------------------------------------------------------------------
(* the manual drop list *)

IsDigit(c) == c \in Digits

\* p is a run of digits with nothing but blanks around it
IsNumber(p) ==
    \E a, b \in DOMAIN p :
        /\ a <= b
        /\ \A i \in DOMAIN p : IF a <= i /\ i <= b THEN p[i] \in Digits ELSE p[i] = " "

NumberOf(p) == DecimalValue(SelectSeq(p, IsDigit), 0)

\* the indices a well-formed token stands for: n for a literal index,
\* a..b for a range 'a-b'; nothing for any other token
TokenIndices(p) ==
    IF IsNumber(p) THEN {NumberOf(p)}
    ELSE UNION {NumberOf(SubSeq(p, 1, d - 1))..NumberOf(SubSeq(p, d + 1, Len(p))) :
                   d \in {e \in DOMAIN p : /\ p[e] = "-"
                                           /\ IsNumber(SubSeq(p, 1, e - 1))
                                           /\ IsNumber(SubSeq(p, e + 1, Len(p)))}}

\* the tokens of a list: the text between consecutive commas
Marks(s) == {0, Len(s) + 1} \cup {i \in DOMAIN s : s[i] = ","}
TokensOf(s) ==
    {SubSeq(s, i + 1, j - 1) :
        <<i, j>> \in {m \in Marks(s) \X Marks(s) :
                         m[1] < m[2] /\ \A k \in Marks(s) : ~(m[1] < k /\ k < m[2])}}

\* C18: _parse_packet_list returns, for any comma-separated string, exactly
\* the union of the indices and inclusive ranges of its well-formed tokens; a
\* malformed token adds nothing and does not stop the tokens around it.
C18_MalformedTokenSkipped ==
    p_done => p_drops = UNION {TokenIndices(t) : t \in TokensOf(p_drop_list)}

\* '2,5-,7-9': the malformed second token is skipped, the tokens on both
\* sides of it are applied
C18_Witness ==
    /\ p_done
    /\ p_drop_list = <<"2", ",", "5", "-", ",", "7", "-", "9">>
    /\ p_drops = {2, 7, 8, 9}

----------------------------------------------------------------------------
(* repeated calls *)

\* the calls made on the FilterManager so far that have returned
FinishedCalls ==
    IF f_pc = "done"
    THEN Append(h_calls, [cfg |-> h_cfg, packets |-> f_packets,
                          output |-> f_filtered_packets])
    ELSE h_calls

\* C15: two apply_filters calls with the same packets, the same config
\* manager values and the same loaded filter rules return the same output,
\* whatever other calls were made on the FilterManager before them.
C15_SameInputSameOutput ==
    \A i, j \in DOMAIN FinishedCalls :
        (FinishedCalls[i].cfg = FinishedCalls[j].cfg
             /\ FinishedCalls[i].packets = FinishedCalls[j].packets)
            => FinishedCalls[i].output = FinishedCalls[j].output

----------------------------------------------------------------------------
(* the exit codes of main *)

ValidationErrors ==
    {"Input file not found", "Input file is empty", "File size is not divisible by 42"}

\* C16: a missing, empty or wrongly sized input makes main return a failure
\* before decode_file is ever called, and 'not found', 'empty' and 'size not
\* divisible by 42' reach the caller as three different outcomes: with 2 for
\* 'not found' and 3 for 'not divisible', 'empty' returns neither.
C16_ValidationBeforeDecode ==
    /\ m_log \in ValidationErrors => m_decode_calls = 0 /\ m_rc > 0
    /\ (m_pc \in {"decode", "filter", "csv", "plot"} \/ m_decode_calls > 0)
          => m_env.input = "present" /\ m_env.size > 0 /\ m_env.size % 42 = 0
    /\ m_log = "Input file not found" => m_rc = 2
    /\ m_log = "File size is not divisible by 42" => m_rc = 3
    /\ m_log = "Input file is empty" => m_rc \notin {2, 3}

EmptyResults == {"No valid packets found", "No packets remain after filtering"}

OtherFailures ==
    ValidationErrors \cup {"Failed to write CSV", "Failed to generate plots", "Unexpected error"}

\* C17: when no packet survives decoding, or none survives filtering, main
\* returns (it does not raise) an exit code that none of the other failures
\* returns: the other failures return 1, 2, 3 or 4, an empty result none of
\* these and not 0.
C17_EmptyResultOwnCode ==
    /\ m_log \in OtherFailures => m_rc \in {1, 2, 3, 4}
    /\ m_log \in EmptyResults => m_pc = "exit" /\ m_rc \notin {0, 1, 2, 3, 4}

----------------------------------------------------------------------------
(* the flags column *)

\* C19: the flags value handed to the CSV export is an 8-character bit
\* string in MSB-to-LSB order: its first character is the start bit (bit 7),
\* its last the err bit (bit 0); character j (from 0) is bit 7 - j of the
\* byte.
C19_FlagsMsbFirst ==
    g_pc = "string" =>
        /\ Len(g_string) = 8
        /\ \A j \in 0..7 :
              g_string[j + 1] = IF (g_byte \div Pow2(7 - j)) % 2 = 1 THEN "1" ELSE "0"

----------------------------------------------------------------------------
(* a block of the wrong length *)

\* C20: for every input that is not exactly 42 bytes long (shorter, longer,
\* empty) _decode_packet raises before it reads any bit and builds no packet,
\* and decode_packet_with_log returns None for the same input and does not
\* raise.
C20_WrongLengthFails ==
    Len(d_data) # 42 =>
        /\ d_pc \in {"decoded", "logged"} => d_out.err /\ d_out.pos = 0
        /\ d_pc = "logged" => ~d_logged.raised /\ d_logged.value = None

\* a block of 43 bytes went through both calls
C20_Witness ==
    /\ d_pc = "logged"
    /\ Len(d_data) = 43
    /\ d_out.err
    /\ d_logged.value = None

----------------------------------------------------------------------------
(* the keys of channel_limits *)

\* C21: a bound written as c_min or c_max for a numeric packet field c, in
\* the filter file or in the settings file, ends up in channel_limits under
\* the key c, which the channel stage matches to the field, so a packet
\* beyond the bound is dropped.
C21_BoundsKeyedByField ==
    /\ y_pc \in {"loaded", "filtered"} =>
          /\ y_channel \in DOMAIN y_limits
          /\ y_kind \in DOMAIN y_limits[y_channel]
    /\ y_pc = "filtered" => ~y_passed

----------------------------------------------------------------------------
(* what apply_filters leaves alone *)

\* C22: apply_filters only reads its inputs: in every step of the call the
\* input list keeps its length and its packets, every packet already in the
\* output stays as it is, every packet appended is an input packet field for
\* field, and from the first to the last iteration of the loop
\* time_settings, channel_limits and manual_drops do not change; they change
\* only in the merge before the loop.
C22_FilteringReadOnly ==
    [][/\ f_pc \in {"apply", "loop"} =>
              /\ f_packets' = f_packets
              /\ \A i \in DOMAIN f_filtered_packets' :
                    \E j \in DOMAIN f_packets : f_filtered_packets'[i] = f_packets[j]
       /\ f_pc = "loop" =>
              /\ f_time_settings' = f_time_settings
              /\ f_channel_limits' = f_channel_limits
              /\ f_manual_drops' = f_manual_drops
              /\ \A i \in DOMAIN f_filtered_packets :
                    f_filtered_packets'[i] = f_filtered_packets[i]]_vars

\* a call that merged a time limit and a channel limit, with a manual drop
\* loaded, has visited three packets and dropped one
C22_Witness ==
    /\ f_pc = "done"
    /\ Len(f_packets) = 3
    /\ Len(f_filtered_packets) = 2
    /\ f_manual_drops = {1}
    /\ DOMAIN f_channel_limits # {}
    /\ Verdicts = <<"kept", "manual", "kept">>

----------------------------------------------------------------------------
(* validation against the field widths *)

ValidatedFields == {"pressPa", "lat_1e7", "lon_1e7", "temp_cC"}

\* the four plausibility bounds, written out
WithinBounds(pkt) ==
    /\ 0 <= pkt.pressPa /\ pkt.pressPa < 1048576
    /\ -900000000 <= pkt.lat_1e7 /\ pkt.lat_1e7 <= 900000000
    /\ -1800000000 <= pkt.lon_1e7 /\ pkt.lon_1e7 <= 1800000000
    /\ -100000 <= pkt.temp_cC /\ pkt.temp_cC <= 100000

\* C23: the packet _decode_packet builds from a 42-byte record always lies
\* within the four plausibility bounds, because a 20-bit unsigned, a 30-bit
\* signed and a 14-bit signed field cannot hold more; so _is_valid_packet
\* returns true and decode_file on 42*k bytes returns exactly k packets,
\* packet i being record i.
C23_ValidationNeverRejects ==
    /\ \A f \in ValidatedFields : \A k \in Kinds :
          LET pkt == BuildPacket([ZeroFields EXCEPT ![f] = PatternOf(k, WidthOf(f))])
          IN  WithinBounds(pkt) /\ IsValidPacket(pkt)
    /\ b_pc \in {"loop", "done"} =>
          /\ Len(b_packets) = b_i
          /\ \A i \in 1..b_i :
                /\ b_log[i] = "ok"
                /\ WithinBounds(b_packets[i])
                /\ b_packets[i] =
                      DecodePacket(Slice(b_data, (i - 1) * PACKET_SIZE, i * PACKET_SIZE)).pkt
    /\ (b_pc = "done" /\ Len(b_data) % PACKET_SIZE = 0) =>
          Len(b_packets) * PACKET_SIZE = Len(b_data)

\* three records, the second with the sign bit alone in every signed field
\* and every bit of the pressure set, gave three packets
C23_Witness ==
    /\ b_pc = "done"
    /\ b_made = <<"a", "extreme", "b">>
    /\ Len(b_data) = 3 * PACKET_SIZE
    /\ Len(b_packets) = 3
    /\ b_packets[2].pressPa = 1048575
    /\ b_packets[2].lat_1e7 = -536870912
    /\ b_packets[2].temp_cC = -8192

----------------------------------------------------------------------------
(* after a forward jump *)

\* max_jump_ms is configured and wrap-around is not allowed
JumpNoWrap == Merged /\ HasJump /\ ~WrapOn

\* packet j was dropped by the time stage for lying more than max_jump_ms
\* after its baseline
JumpDrop(j) ==
    /\ f_trace[j].verdict = "time"
    /\ f_trace[j].prev_time # None
    /\ f_packets[j].time_ms > f_trace[j].prev_time[1] + f_time_settings["max_jump_ms"]

NonDecreasing(ps) == \A i \in 1..(Len(ps) - 1) : ps[i].time_ms <= ps[i + 1].time_ms

\* C24 as stated: after a jump-drop against baseline p the baseline stays p
\* and every later packet whose time is also greater than p + M is dropped.
C24_JumpBlocksAllLater ==
    JumpNoWrap =>
        \A j, k \in DOMAIN f_trace :
            (j < k /\ JumpDrop(j)
                 /\ f_packets[k].time_ms
                        > f_trace[j].prev_time[1] + f_time_settings["max_jump_ms"])
                => /\ f_trace[k].prev_time = f_trace[j].prev_time
                   /\ f_trace[k].verdict # "kept"

\* C24 (amended): after a jump-drop against baseline p the baseline stays p
\* until a packet is accepted, and until then every packet whose time is
\* greater than p + M is dropped by the time stage; for an input with
\* non-decreasing times no packet after the first jump-drop is emitted and
\* the output is made of packets before the jump only.
C24_JumpBlocksUntilAccepted ==
    JumpNoWrap =>
        /\ \A j, k \in DOMAIN f_trace :
              (j < k /\ JumpDrop(j) /\ \A m \in j..(k - 1) : f_trace[m].verdict # "kept")
                  => /\ f_trace[k].prev_time = f_trace[j].prev_time
                     /\ (f_packets[k].time_ms
                             > f_trace[j].prev_time[1] + f_time_settings["max_jump_ms"]
                         => f_trace[k].verdict = "time")
        /\ NonDecreasing(f_packets) =>
              \A j, k \in DOMAIN f_trace :
                  (j < k /\ JumpDrop(j)) => f_trace[k].verdict = "time"
        /\ (NonDecreasing(f_packets) /\ \E j \in DOMAIN f_trace : JumpDrop(j)) =>
              \A i \in DOMAIN f_filtered_packets :
                  \E m \in DOMAIN f_trace :
                      /\ f_filtered_packets[i] = f_packets[m]
                      /\ \A j \in DOMAIN f_trace : JumpDrop(j) => m < j

\* 1000, 50000, 16777200 with a limit of 2000: the stream is blocked from
\* the second packet on
C24_Witness ==
    /\ f_pc = "done"
    /\ JumpNoWrap /\ f_time_settings["max_jump_ms"] = 2000
    /\ Times(f_packets) = <<1000, 50000, 16777200>>
    /\ Verdicts = <<"kept", "time", "time">>
    /\ Times(f_filtered_packets) = <<1000>>

----------------------------------------------------------------------------
(* the two spare bits *)

\* the stream position at which the decoder starts reading a field
RECURSIVE OffsetFrom(_, _, _)
OffsetFrom(layout, i, name) ==
    IF layout[i][1] = name THEN 0
    ELSE layout[i][2] + OffsetFrom(layout, i + 1, name)

DummyOffset == OffsetFrom(DecodeLayout, 1, "dummy")

\* the record with the two bits the decoder reads as dummy replaced by d,
\* every other bit kept
WithDummyBits(data, d) ==
    LET idx == DummyOffset \div 8 + 1
        low == DummyOffset % 8
        keep == BitAnd(data[idx], Shl(1, low) - 1)
    IN  [data EXCEPT ![idx] = keep + Shl(d, low)]

\* C25: records that differ only in the two bits read as dummy (stream bits
\* 118 and 119, directly after lon_1e7) decode to packets equal in all 19
\* fields with the same validation result, and after every field is read the
\* cursor is at bit 336 with bits_left() = 0.
C25_DummyBitsIgnored ==
    (c_stage = "decoded" /\ ~c_out.err) =>
        /\ DummyOffset = 118
        /\ WithDummyBits(c_wire, c_out.dummy) = c_wire
        /\ \A d \in 0..3 :
              LET other == DecodePacket(WithDummyBits(c_wire, d))
              IN  /\ ~other.err
                  /\ other.dummy = d
                  /\ other.pkt = c_out.pkt
                  /\ IsValidPacket(other.pkt) = IsValidPacket(c_out.pkt)
                  /\ other.pos = c_out.pos
        /\ DOMAIN c_out.pkt = FieldNames \ {"dummy"}
        /\ Cardinality(DOMAIN c_out.pkt) = 19
        /\ c_out.pos = 336
        /\ BitsLeft(Len(c_wire) * 8, c_out.pos) = 0

\* a record with both spare bits set and every other field non-zero has been
\* decoded
C25_Witness ==
    /\ c_stage = "decoded"
    /\ ~c_out.err
    /\ c_out.dummy = 3
    /\ c_out.pkt.time_ms # 0
    /\ c_out.pkt.radData3 # 0
    /\ DecodePacket(WithDummyBits(c_wire, 0)).dummy = 0
    /\ WithDummyBits(c_wire, 0) # c_wire

====
